---- MODULE Spec2Model ----
(***************************************************************************)
(* Model of the EPUB parser of supabase/functions/add-new-book/index.ts    *)
(* (the live implementation, lines 2549-4463): parseEpubContent and the    *)
(* functions it calls.  One behaviour of the model is one invocation of    *)
(* parseEpubContent on one archive; the archive and the module-level       *)
(* library state are chosen in Init.                                       *)
(*                                                                         *)
(* Representation of values:                                               *)
(*   - a path or an href is a sequence of path segments;                   *)
(*   - a title is a sequence of word tokens (already lower-cased where the *)
(*     code lower-cases it);                                               *)
(*   - the text of a markup section is summarised by its number of words,  *)
(*     its leading phrase, the number of <img tags and the set of          *)
(*     title/author keywords it contains;                                  *)
(*   - a JavaScript number obtained from an all-digit XML attribute        *)
(*     (parseAttributeValue: true) is an href with num = TRUE.             *)
(***************************************************************************)
EXTENDS Integers, Sequences, FiniteSets, TLC

VARIABLES
  libsLoaded,       \* how many of fflate, XMLParser, htmlToText, nodeHtmlParser were imported
  epub,             \* the archive handed to parseEpubContent
  pc,               \* position inside parseEpubContent
  packageData,      \* result of parsePackageDocumentFast
  tableOfContents,  \* TocEntry list (depth-first order, with level)
  tocMapping,       \* href (fragment stripped) -> TocEntry, as a set of pairs kept last-write-wins
  anchorsByFile,    \* ordered groups << [file, anchors] >>
  fileIdx,          \* index of the file group being processed
  fileItem,         \* manifest item of the file group being processed
  anchorIdx,        \* index j of the anchor being processed
  spineIdx,         \* index i of the spine item being processed
  chapters,         \* chapters pushed so far
  totalWordCount,
  chapterNumber,
  warnings,
  resources,        \* resources accumulated by processEpubResourcesFast
  resIdx,           \* index of the manifest item processEpubResourcesFast is at
  doc,              \* the EpubContent returned (NoDoc until then)
  \* the request handler (Deno.serve)
  hpc,              \* position inside the handler
  request,          \* the form data of the request
  processed,        \* sides whose upload was unpacked (foreignProcessed, nativeProcessed)
  storage,          \* objects in the storage buckets
  buckets,          \* per bucket name: "absent", "present", "created" or "updated"
  parsed,           \* per side: outcome of parseEpubContent
  books,            \* rows of table books
  pairs,            \* rows of table book_pairs
  response,         \* the Response returned
  failed,           \* history: the step whose external call failed
  trace,            \* history: the steps performed, in order
  \* the Content Normalizer applied to one section of markup
  npc,              \* position: "ready", "formatted" (text extracted), "done"
  rawHtml,          \* the markup handed to extractTextFromHtml and extractFormattedHtml
  plainText,        \* result of extractTextFromHtml
  displayHtml       \* result of extractFormattedHtml

\* the variables of the Content Normalizer
nvars == <<npc, rawHtml, plainText, displayHtml>>

\* the variables of the handler
hvars == <<hpc, request, processed, storage, buckets, parsed, books, pairs, response, failed, trace>>

\* what one invocation of parseEpubContent leaves alone
aside == <<hvars, nvars>>

vars == <<libsLoaded, epub, pc, packageData, tableOfContents, tocMapping,
          anchorsByFile, fileIdx, fileItem, anchorIdx, spineIdx, chapters,
          totalWordCount, chapterNumber, warnings, resources, resIdx, doc, hvars,
          nvars>>

\* the variables of one invocation of parseEpubContent
pstate == <<epub, pc, packageData, tableOfContents, tocMapping, anchorsByFile, fileIdx,
            fileItem, anchorIdx, spineIdx, chapters, totalWordCount, chapterNumber,
            warnings, resources, resIdx, doc>>

-----------------------------------------------------------------------------
(* Bounds of the model *)

MaxToc == 2
MaxSpine == 2
MaxResources == 2
MaxMeta == 3

\* fragments of markup in a section put through the Content Normalizer
MaxFragments == 2

-----------------------------------------------------------------------------
(* Generic helpers *)

SeqsUpTo(S, n) == UNION {[1..k -> S] : k \in 0..n}

Range(s) == {s[i] : i \in 1..Len(s)}

RECURSIVE SumSeq(_)
SumSeq(s) == IF s = <<>> THEN 0 ELSE Head(s) + SumSeq(Tail(s))

IsPrefixOf(p, s) == Len(p) <= Len(s) /\ SubSeq(s, 1, Len(p)) = p

IsSuffixOf(p, s) == Len(p) <= Len(s) /\ SubSeq(s, Len(s) - Len(p) + 1, Len(s)) = p

\* index of the first element of s satisfying the test, 0 if none (Array.prototype.find)
FirstIndex(s, Test(_)) ==
  IF \E i \in 1..Len(s) : Test(s[i])
  THEN CHOOSE i \in 1..Len(s) : Test(s[i]) /\ \A k \in 1..(i - 1) : ~Test(s[k])
  ELSE 0

UndefSeq == <<"undefined">>
Falsy(s) == s = <<>> \/ s = UndefSeq

-----------------------------------------------------------------------------
(* Module-level library state, lines 2558-2577: the four imports run in     *)
(* order inside one try block, so the libraries loaded form a prefix.       *)

FflateLoaded == libsLoaded >= 1
XmlParserLoaded == libsLoaded >= 2
HtmlToTextLoaded == libsLoaded >= 3
NodeHtmlParserLoaded == libsLoaded >= 4

\* fast-xml-parser option isArray, lines 2727-2730
IsArrayTag(name) == name \in {"item", "itemref", "li", "a", "subject"}

-----------------------------------------------------------------------------
(* Paths and hrefs *)

ContainerPath == <<"META-INF", "container.xml">>
OpfPath == <<"OEBPS", "content.opf">>

Href(path, hash, frag) == [num |-> FALSE, root |-> FALSE, path |-> path, hash |-> hash, frag |-> frag]
FileHref(name) == Href(<<name>>, FALSE, "")
AnchorHref(name, frag) == Href(<<name>>, TRUE, frag)
\* an attribute made of digits only: fast-xml-parser hands it over as a number
DigitsHref(name) == [num |-> TRUE, root |-> FALSE, path |-> <<name>>, hash |-> FALSE, frag |-> ""]

\* href.split('#')[0]
FilePart(h) == [h EXCEPT !.hash = FALSE, !.frag = ""]

resolveHref_NoBaseDir(basePath, href) == href.path

\* resolveHref, lines 3928-3934.  Called on string hrefs only: on a number
\* href.startsWith is not a function, and the callers model that throw.
resolveHref(basePath, href) ==
  LET baseDir == SubSeq(basePath, 1, Len(basePath) - 1)
  IN IF href.root THEN href.path
     ELSE IF baseDir # <<>> THEN baseDir \o href.path ELSE href.path

-----------------------------------------------------------------------------
(* Titles.  A title is the sequence of its words after trim(); ToLower maps *)
(* a word to its lower-case form.                                           *)

ToLower(w) ==
  CASE w = "Chapter" -> "chapter" [] w = "One" -> "one" [] w = "Two" -> "two"
    [] w = "Three" -> "three" [] w = "Copyright" -> "copyright" [] w = "Cover" -> "cover"
    [] w = "Part" -> "part" [] w = "The" -> "the" [] w = "Story" -> "story"
    [] w = "Untitled" -> "untitled" [] w = "Discovery" -> "discovery"
    [] OTHER -> w

LowerTitle(t) == [i \in 1..Len(t) |-> ToLower(t[i])]

\* frontMatterTitles, lines 3162-3180
FrontMatterTitles ==
  { <<"cover">>, <<"title", "page">>, <<"copyright">>, <<"dedication">>, <<"acknowledgments">>,
    <<"table", "of", "contents">>, <<"contents">>, <<"preface">>, <<"foreword">>,
    <<"introduction">>, <<"prologue">>, <<"about", "the", "author">>, <<"about", "this", "book">>,
    <<"couverture">>, <<"page", "de", "titre">>, <<"droits">>, <<"dedicace">>, <<"remerciements">>,
    <<"table", "des", "matieres">>, <<"sommaire">>, <<"avant-propos">>,
    <<"a", "propos", "de", "l'auteur">>,
    <<"part", "one">>, <<"part", "two">>, <<"part", "three">>, <<"part", "i">>, <<"part", "ii">>,
    <<"part", "iii">>, <<"premiere", "partie">>, <<"deuxieme", "partie">>,
    <<"troisieme", "partie">>, <<"partie", "1">>, <<"partie", "2">>, <<"partie", "3">>,
    <<>>, <<"untitled">>, <<"sans", "titre">> }

\* isFrontMatterTitle, lines 3159-3187.  startsWith(fm + ' ') and
\* endsWith(' ' + fm) on a trimmed title: fm is a proper word prefix/suffix.
isFrontMatterTitle(title) ==
  LET normalizedTitle == LowerTitle(title)
  IN \E frontMatter \in FrontMatterTitles :
        \/ normalizedTitle = frontMatter
        \/ /\ frontMatter # <<>>
           /\ Len(normalizedTitle) > Len(frontMatter)
           /\ \/ IsPrefixOf(frontMatter, normalizedTitle)
              \/ IsSuffixOf(frontMatter, normalizedTitle)

-----------------------------------------------------------------------------
(* Text of a section, and the front-matter classifier *)

\* keywords of Rule 4 with the number of words each one counts for, lines 3125-3128, 3150-3153
KeywordWords ==
  [k \in {"albert", "camus", "etranger", "stranger", "saint-exupery", "petit prince",
          "little prince", "premiere partie", "deuxieme partie", "part one", "part two"} |->
     IF k \in {"albert", "camus", "etranger", "stranger", "saint-exupery"} THEN 1 ELSE 2]

Keywords == DOMAIN KeywordWords

Text(n, lead, imgs, kws) == [n |-> n, lead |-> lead, imgs |-> imgs, kws |-> kws]

EmptyText == Text(0, "", 0, {})

\* countWords, lines 3256-3258
countWords(text) == text.n

\* frontMatterPatterns, lines 3057-3116, by the phrase the text must begin
\* with; an anchored pattern (...\s*$) also fixes the number of words.
FrontMatterPatterns ==
  { [lead |-> "copyright", anchored |-> FALSE, words |-> 0],
    [lead |-> "all rights reserved", anchored |-> FALSE, words |-> 0],
    [lead |-> "published en 1857", anchored |-> FALSE, words |-> 0],
    [lead |-> "dear friend", anchored |-> FALSE, words |-> 0],
    [lead |-> "part one", anchored |-> TRUE, words |-> 2],
    [lead |-> "chapter 1", anchored |-> TRUE, words |-> 2],
    [lead |-> "contents", anchored |-> TRUE, words |-> 1],
    [lead |-> "victor hugo", anchored |-> TRUE, words |-> 2],
    [lead |-> "iv", anchored |-> TRUE, words |-> 1] }

RECURSIVE SumWords(_)
SumWords(ks) ==
  IF ks = {} THEN 0
  ELSE LET k == CHOOSE x \in ks : TRUE IN KeywordWords[k] + SumWords(ks \ {k})

\* calculateKeywordDensity > 0.7, lines 3146-3156 and 3130, without division
KeywordDensityAbove70(text) ==
  /\ text.n > 0
  /\ 10 * SumWords(text.kws) > 7 * text.n

Max(a, b) == IF a >= b THEN a ELSE b

\* manifestItem?.linear: a ManifestItem carries the field only if the
\* package parser put it there
LinearOf(manifestItem) ==
  IF "linear" \in DOMAIN manifestItem THEN manifestItem.linear ELSE "undefined"

isFrontMatterPage_NoShortRule(textContent, wordCount, manifestItem) ==
  \/ LinearOf(manifestItem) = "no"
  \/ \E pattern \in FrontMatterPatterns :
        /\ textContent.lead = pattern.lead
        /\ pattern.anchored => textContent.n = pattern.words
  \/ KeywordDensityAbove70(textContent)
  \/ /\ 2 * textContent.imgs > Max(wordCount, 1)
     /\ wordCount < 50

\* isFrontMatterPage, lines 3040-3143
isFrontMatterPage(textContent, wordCount, manifestItem) ==
  \/ wordCount < 20
  \/ LinearOf(manifestItem) = "no"
  \/ \E pattern \in FrontMatterPatterns :
        /\ textContent.lead = pattern.lead
        /\ pattern.anchored => textContent.n = pattern.words
  \/ KeywordDensityAbove70(textContent)
  \/ /\ 2 * textContent.imgs > Max(wordCount, 1)
     /\ wordCount < 50

-----------------------------------------------------------------------------
(* Content documents.  A document is the list of the element children of    *)
(* its body; a child has an id ("" if none), its own text, and element      *)
(* children of its own (kids), which are leaves.                            *)

Leaf(id, text) == [id |-> id, text |-> text]
Node(id, text, kids) == [id |-> id, text |-> text, kids |-> kids]

Plain(n) == Text(n, "plain", 0, {})

\* heading: what extractChapterTitleEnhanced can find in the markup
Heading(tag, attrs, text) == [tag |-> tag, attrs |-> attrs, text |-> text]
NoHeading == Heading("none", FALSE, <<>>)

Document(nodes, heading, sentence) == [nodes |-> nodes, heading |-> heading, sentence |-> sentence]

\* the content files an archive of the model can hold, by file name
Docs ==
  [name \in {"ch1.xhtml", "ch2.xhtml", "front.xhtml", "tiny.xhtml", "plate.xhtml", "names.xhtml",
             "essay.xhtml", "long.xhtml", "year.xhtml", "poem.xhtml"} |->
    CASE name = "ch1.xhtml" ->
           Document(<< Node("s1", Plain(60), <<>>), Node("s2", Plain(75), <<>>) >>,
                    Heading("h1", FALSE, <<"Chapter", "One">>), 40)
      [] name = "ch2.xhtml" ->
           Document(<< Node("", Plain(5), <<>>),
                       Node("s1", Plain(30), <<>>),
                       Node("box", Plain(0), << Leaf("s2", Plain(55)), Leaf("s3", Plain(65)) >>),
                       Node("s4", Plain(50), <<>>) >>,
                    Heading("title", FALSE, <<"Copyright">>), 200)
      [] name = "front.xhtml" ->
           Document(<< Node("s1", Text(60, "copyright", 0, {}), <<>>) >>,
                    Heading("h2", TRUE, <<"Cover", "Story">>), 3)
      [] name = "tiny.xhtml" ->
           Document(<< Node("s1", Plain(12), <<>>) >>, NoHeading, 8)
      [] name = "plate.xhtml" ->
           Document(<< Node("s1", Text(30, "plain", 20, {}), <<>>) >>, NoHeading, 40)
      [] name = "names.xhtml" ->
           Document(<< Node("s1", Text(22, "plain", 0, Keywords), <<>>) >>, NoHeading, 40)
      [] name = "essay.xhtml" ->
           Document(<< Node("", Plain(80), <<>>) >>, NoHeading, 40)
      [] name = "long.xhtml" ->
           Document(<< Node("", Plain(90), <<>>) >>, NoHeading, 120)
      [] name = "year.xhtml" ->
           Document(<< Node("", Plain(70), <<>>) >>, Heading("h1", TRUE, <<"1984">>), 40)
      [] name = "poem.xhtml" ->
           Document(<< Node("", Plain(65), <<>>) >>, Heading("p.title", TRUE, <<"Ode">>), 40) ]

DocNames == DOMAIN Docs

\* position of a piece of text: <<k, 0>> the k-th node itself, <<k, j>> its j-th kid
NodePieces(d, k) == <<<<k, 0>>>> \o [j \in 1..Len(d.nodes[k].kids) |-> <<k, j>>]

RECURSIVE PiecesFrom(_, _)
PiecesFrom(d, k) ==
  IF k > Len(d.nodes) THEN <<>> ELSE NodePieces(d, k) \o PiecesFrom(d, k + 1)

AllPieces(d) == PiecesFrom(d, 1)

PieceId(d, p) == IF p[2] = 0 THEN d.nodes[p[1]].id ELSE d.nodes[p[1]].kids[p[2]].id
PieceText(d, p) == IF p[2] = 0 THEN d.nodes[p[1]].text ELSE d.nodes[p[1]].kids[p[2]].text

RECURSIVE TextOfPieces(_, _)
TextOfPieces(d, ps) ==
  IF ps = <<>> THEN EmptyText
  ELSE LET h == PieceText(d, Head(ps))
           r == TextOfPieces(d, Tail(ps))
       IN Text(h.n + r.n, IF h.n > 0 THEN h.lead ELSE r.lead, h.imgs + r.imgs, h.kws \cup r.kws)

\* extractTextFromHtml, lines 2735-2787, on a section given by its pieces
extractTextFromHtml(d, section) == TextOfPieces(d, section)

-----------------------------------------------------------------------------
(* Section Slicer *)

RECURSIVE WalkNodes(_, _, _)
\* the while loop of lines 3001-3027 over the siblings of a body child
WalkNodes(d, k, nextAnchors) ==
  IF k > Len(d.nodes) THEN <<>>
  ELSE LET currentNode == d.nodes[k]
       IN IF currentNode.id # "" /\ currentNode.id \in nextAnchors THEN <<>>
          ELSE IF \E j \in 1..Len(currentNode.kids) : currentNode.kids[j].id \in nextAnchors
               THEN <<>>
               ELSE NodePieces(d, k) \o WalkNodes(d, k + 1, nextAnchors)

RECURSIVE WalkKids(_, _, _, _)
\* the same loop over the siblings of a nested element (leaves: nothing to search inside)
WalkKids(d, k, j, nextAnchors) ==
  IF j > Len(d.nodes[k].kids) THEN <<>>
  ELSE LET currentNode == d.nodes[k].kids[j]
       IN IF currentNode.id # "" /\ currentNode.id \in nextAnchors THEN <<>>
          ELSE <<<<k, j>>>> \o WalkKids(d, k, j + 1, nextAnchors)

\* root.querySelector('#' + anchor): first element in document order, 0 if none
FindAnchor(d, anchor) == FirstIndex(AllPieces(d), LAMBDA p : PieceId(d, p) = anchor)

\* anchors for which '#' + anchor is not a selector: querySelector throws
\* and the catch of lines 3033-3036 returns the input
InvalidSelectors == {"fn:1"}

\* sliceSection with nothing returned for an anchor that is not found
sliceSection_EmptyWhenMissing(d, anchor, nextAnchors) ==
  IF ~NodeHtmlParserLoaded THEN AllPieces(d)
  ELSE IF anchor \in InvalidSelectors THEN <<>>
  ELSE LET i == FindAnchor(d, anchor)
       IN IF i = 0 THEN <<>>
          ELSE LET startElement == AllPieces(d)[i]
               IN IF startElement[2] = 0
                  THEN NodePieces(d, startElement[1])
                         \o WalkNodes(d, startElement[1] + 1, nextAnchors)
                  ELSE <<startElement>>
                         \o WalkKids(d, startElement[1], startElement[2] + 1, nextAnchors)

\* sliceSection, lines 2964-3037: the pieces of the document in the slice
sliceSection(d, anchor, nextAnchors) ==
  IF ~NodeHtmlParserLoaded THEN AllPieces(d)
  ELSE IF anchor \in InvalidSelectors THEN AllPieces(d)
  ELSE LET i == FindAnchor(d, anchor)
       IN IF i = 0 THEN AllPieces(d)
          ELSE LET startElement == AllPieces(d)[i]
               IN IF startElement[2] = 0
                  THEN NodePieces(d, startElement[1])
                         \o WalkNodes(d, startElement[1] + 1, nextAnchors)
                  ELSE <<startElement>>
                         \o WalkKids(d, startElement[1], startElement[2] + 1, nextAnchors)

-----------------------------------------------------------------------------
(* Chapter title extraction *)

\* manifestId.replace(/^(id|chapter|ch|chap)/i, 'Chapter '), line 3238, on the ids of the model
PlaceholderTitle(manifestId) ==
  CASE manifestId = "ch1" -> <<"Chapter", "1">>
    [] manifestId = "ch2" -> <<"Chapter", "2">>
    [] OTHER -> <<manifestId>>

FirstSentenceTitle == <<"first", "sentence">>

\* extractChapterTitleEnhanced, lines 3190-3243.  With the XML parser an
\* element is an object with a '#text' member only if it has attributes;
\* otherwise it is a bare string and ['#text'] is undefined.
\* parseTagValue: true (line 2722): the text of an element that reads as a
\* number is handed over as a number, and candidates[0].trim() throws
ParsedAsNumber(text) == text \in {<<"1984">>}

extractChapterTitleEnhanced(d, manifestId) ==
  LET h == d.heading
      structured == XmlParserLoaded /\ h.tag \in {"title", "h1", "h2", "h3"}
                      /\ h.attrs /\ h.text # <<>>
      byRegex == h.tag \in {"title", "h1", "h2", "h3", "p.title"} /\ h.text # <<>>
  IN IF structured
     THEN (IF ParsedAsNumber(h.text) THEN <<manifestId>> ELSE h.text)
     ELSE IF byRegex THEN h.text
     ELSE IF d.sentence > 5 /\ d.sentence < 100 THEN FirstSentenceTitle
     ELSE PlaceholderTitle(manifestId)

-----------------------------------------------------------------------------
(* Package document *)

RECURSIVE TrimLeft(_)
TrimLeft(t) == IF t # <<>> /\ Head(t) = " " THEN TrimLeft(Tail(t)) ELSE t

RECURSIVE TrimRight(_)
TrimRight(t) ==
  IF t # <<>> /\ t[Len(t)] = " " THEN TrimRight(SubSeq(t, 1, Len(t) - 1)) ELSE t

\* String.prototype.trim on a text given as a sequence of words and blanks " "
Trim(t) == TrimRight(TrimLeft(t))

Element(tag, text, markup) == [tag |-> tag, text |-> text, markup |-> markup]

\* extractXmlValue, lines 3747-3751: the first <tag ...>text</tag> whose
\* text holds no '<', trimmed; undefined if there is none
extractXmlValue(xml, tagName) ==
  LET i == FirstIndex(xml, LAMBDA e : e.tag = tagName /\ ~e.markup)
  IN IF i = 0 THEN UndefSeq ELSE Trim(xml[i].text)

\* a || b on strings
OrElse(a, b) == IF Falsy(a) THEN b ELSE a

ObjectValue == <<"[object Object]">>

\* metadata[tag] of the parsed package followed by extractMetadataValue,
\* lines 3633-3637: trimmed text of the (first) element, the element object
\* itself when it has child markup and no text of its own
StructuredField(xml, tagName) ==
  LET i == FirstIndex(xml, LAMBDA e : e.tag = tagName)
  IN IF i = 0 THEN UndefSeq
     ELSE IF xml[i].markup /\ Trim(xml[i].text) = <<>> THEN ObjectValue
     ELSE Trim(xml[i].text)

\* value of an attribute as the parser in use hands it over
ParsedHref(raw, structured) == [raw EXCEPT !.num = raw.num /\ structured]

ManifestItem(raw, structured) ==
  [id |-> raw.id, href |-> ParsedHref(raw.href, structured),
   mediaType |-> raw.mediaType, properties |-> raw.properties]

RawSpineItem(raw) == [idref |-> raw.idref, linear |-> raw.linear]

PackageParsesStructured(opf) == XmlParserLoaded /\ opf.wellFormed

parsePackageDocumentRegex_NoNamespace(opf) ==
  [metadata |-> [title |-> extractXmlValue(opf.meta, "title"),
                 creator |-> extractXmlValue(opf.meta, "creator")],
   manifest |-> [i \in 1..Len(opf.manifest) |-> ManifestItem(opf.manifest[i], FALSE)],
   spine |-> [i \in 1..Len(opf.spine) |-> RawSpineItem(opf.spine[i])],
   version |-> opf.version]

\* parsePackageDocumentRegex, lines 3697-3745
parsePackageDocumentRegex(opf) ==
  [metadata |-> [title |-> OrElse(extractXmlValue(opf.meta, "dc:title"),
                                   extractXmlValue(opf.meta, "title")),
                 creator |-> OrElse(extractXmlValue(opf.meta, "dc:creator"),
                                     extractXmlValue(opf.meta, "creator"))],
   manifest |-> [i \in 1..Len(opf.manifest) |-> ManifestItem(opf.manifest[i], FALSE)],
   spine |-> [i \in 1..Len(opf.spine) |-> RawSpineItem(opf.spine[i])],
   version |-> opf.version]

\* parsePackageDocumentFast, lines 3622-3694
parsePackageDocumentFast(opf) ==
  IF PackageParsesStructured(opf)
  THEN [metadata |-> [title |-> OrElse(StructuredField(opf.meta, "dc:title"),
                                        StructuredField(opf.meta, "title")),
                      creator |-> OrElse(StructuredField(opf.meta, "dc:creator"),
                                          StructuredField(opf.meta, "creator"))],
        manifest |-> [i \in 1..Len(opf.manifest) |-> ManifestItem(opf.manifest[i], TRUE)],
        spine |-> [i \in 1..Len(opf.spine) |-> RawSpineItem(opf.spine[i])],
        version |-> opf.version]
  ELSE parsePackageDocumentRegex(opf)

-----------------------------------------------------------------------------
(* Navigation documents.  The entries of a navigation document are given in *)
(* depth-first order with their nesting level.                              *)

RawToc(id, title, href, level) == [id |-> id, title |-> title, href |-> href, level |-> level]
TocEntry(id, title, href, level) == [id |-> id, title |-> title, href |-> href, level |-> level]

EmptyHref == Href(<<>>, FALSE, "")
HrefTruthy(h) == h.num \/ h.path # <<>> \/ h.hash

IdxStr(i) == CASE i = 0 -> "0" [] i = 1 -> "1" [] i = 2 -> "2" [] i = 3 -> "3" [] OTHER -> "4"

\* the indices i in 1..n for which Keep(i) holds, in increasing order
SelectIdx(n, Keep(_)) ==
  LET f[i \in 0..n] == IF i = 0 THEN <<>>
                       ELSE IF Keep(i) THEN Append(f[i - 1], i) ELSE f[i - 1]
  IN f[n]

\* what link['@_href'] yields in extractTocFromList, lines 3792-3794: the
\* parser wraps every <a> in an array, and an array has no '@_href' member
LinkHrefTruthy(e) == ~IsArrayTag("a") /\ HrefTruthy(e.href)

\* extractTocFromList, lines 3786-3813
extractTocFromList(es) ==
  LET kept == SelectIdx(Len(es), LAMBDA i : LinkHrefTruthy(es[i]) /\ es[i].title # <<>>)
  IN [k \in 1..Len(kept) |->
        TocEntry(<<"toc", IdxStr(es[kept[k]].level - 1), IdxStr(kept[k] - 1)>>,
                 es[kept[k]].title, ParsedHref(es[kept[k]].href, TRUE), es[kept[k]].level)]

\* a non-greedy <x>.*?</x> match starts at an opening tag and ends at the
\* first closing tag: an entry directly nested in the previous one is
\* swallowed by the match of its parent
StartsMatch(es, i) == i = 1 \/ es[i].level <= es[i - 1].level

\* <ol[^>]*>(.*?)</ol>, line 3823: the list ends at the first </ol>, that is
\* after the first nested entry that is followed by a shallower one
FirstListEnd(es) ==
  LET Closes(i) == es[i].level >= 2 /\ (i = Len(es) \/ es[i + 1].level < es[i].level)
  IN IF \E i \in 1..Len(es) : Closes(i)
     THEN CHOOSE i \in 1..Len(es) : Closes(i) /\ \A k \in 1..(i - 1) : ~Closes(k)
     ELSE Len(es)

\* parseNavigationDocumentRegex, lines 3816-3844
parseNavigationDocumentRegex(es) ==
  LET kept == SelectIdx(FirstListEnd(es), LAMBDA i : StartsMatch(es, i))
      linked == SelectIdx(Len(kept), LAMBDA k : HrefTruthy(es[kept[k]].href))
  IN [m \in 1..Len(linked) |->
        TocEntry(<<"toc", IdxStr(linked[m] - 1)>>, es[kept[linked[m]]].title,
                 ParsedHref(es[kept[linked[m]]].href, FALSE), 1)]

NavParsesStructured(nav) == XmlParserLoaded /\ nav.wellFormed

\* parseNavigationDocumentFast, lines 3759-3784
parseNavigationDocumentFast(nav) ==
  IF NavParsesStructured(nav) THEN extractTocFromList(nav.entries)
  ELSE parseNavigationDocumentRegex(nav.entries)

RandomSuffixes == {"r1", "r2"}

\* processNavPoint, lines 3862-3888; rnd[i] is the outcome of Math.random for entry i
processNavPoint(e, rnd) ==
  TocEntry(IF e.id # "" THEN <<e.id>> ELSE <<"ncx", IdxStr(e.level), rnd>>,
           IF e.title # <<>> THEN e.title
           ELSE IF e.id # "" THEN <<e.id>> ELSE <<"Untitled">>,
           ParsedHref(e.href, TRUE), e.level)

\* the regex fallback of parseNCXDocument, lines 3896-3925
parseNCXRegex(es) ==
  LET kept == SelectIdx(Len(es), LAMBDA i : StartsMatch(es, i))
      linked == SelectIdx(Len(kept), LAMBDA k : HrefTruthy(es[kept[k]].href))
  IN [m \in 1..Len(linked) |->
        TocEntry(<<"ncx", IdxStr(linked[m] - 1)>>,
                 IF es[kept[linked[m]]].title # <<>> THEN es[kept[linked[m]]].title
                 ELSE <<"Chapter", IdxStr(linked[m])>>,
                 ParsedHref(es[kept[linked[m]]].href, FALSE), 1)]

\* parseNCXDocument, lines 3847-3926
parseNCXDocument(ncx, rnd) ==
  IF NavParsesStructured(ncx)
  THEN [i \in 1..Len(ncx.entries) |-> processNavPoint(ncx.entries[i], rnd[i])]
  ELSE parseNCXRegex(ncx.entries)

\* the draws of Math.random that matter: one per entry without an id
RandomDraws(ncx) ==
  {rnd \in [1..Len(ncx.entries) -> RandomSuffixes] :
     \A i \in 1..Len(ncx.entries) :
        (~NavParsesStructured(ncx) \/ ncx.entries[i].id # "") => rnd[i] = "r1"}

-----------------------------------------------------------------------------
(* The archives of the model *)

Xhtml == "application/xhtml+xml"
NcxType == "application/x-dtbncx+xml"

RawItem(id, href, mediaType, properties) ==
  [id |-> id, href |-> href, mediaType |-> mediaType, properties |-> properties]

DocItem(id, name) == RawItem(id, FileHref(name), Xhtml, <<>>)

BookItems ==
  << DocItem("ch1", "ch1.xhtml"), DocItem("ch2", "ch2.xhtml"), DocItem("front", "front.xhtml"),
     DocItem("tiny", "tiny.xhtml"), DocItem("plate", "plate.xhtml"), DocItem("names", "names.xhtml") >>

\* content files whose title has to be found in the markup or the text
EssayItems ==
  << DocItem("essay", "essay.xhtml"), DocItem("long", "long.xhtml"),
     DocItem("year", "year.xhtml"), DocItem("poem", "poem.xhtml") >>

\* <item id="num" href="123" .../>: the structured parser turns the href into a number
NumItem == RawItem("num", DigitsHref("123"), Xhtml, <<>>)

NavItem == RawItem("nav", FileHref("nav.xhtml"), Xhtml, <<"nav">>)
NcxItem == RawItem("ncx", FileHref("toc.ncx"), NcxType, <<>>)

NavPath == <<"OEBPS", "nav.xhtml">>
NcxPath == <<"OEBPS", "toc.ncx">>

ImgHref(name) == Href(<<"images", name>>, FALSE, "")

ResourcePool ==
  { RawItem("cover", ImgHref("front.jpg"), "image/jpeg", <<"cover-image">>),
    RawItem("fig1", ImgHref("fig1.png"), "image/png", <<>>),
    RawItem("art", ImgHref("BackCover.png"), "image/png", <<>>),
    RawItem("big-cover", ImgHref("scan.jpg"), "image/jpeg", <<>>),
    RawItem("lost", ImgHref("cover-lost.jpg"), "image/jpeg", <<>>),
    RawItem("css", FileHref("style.css"), "text/css", <<>>),
    RawItem("face", FileHref("serif.TTF"), "application/octet-stream", <<>>) }

ResourceAt(id) == CHOOSE r \in ResourcePool : r.id = id

\* longer manifests: a large image between small ones
LongResources ==
  { << ResourceAt("fig1"), ResourceAt("big-cover"), ResourceAt("cover") >>,
    << ResourceAt("css"), ResourceAt("big-cover"), ResourceAt("face"), ResourceAt("art") >> }

\* byte length of the image files of the model
ImageSize(name) == IF name = "scan.jpg" THEN 250000 ELSE 4000

\* the strings of the model that contain 'cover' once lower-cased
ContainsCover(str) == str \in {"cover", "big-cover", "BackCover.png", "cover-lost.jpg"}

\* the strings of the model that contain '.ttf', '.otf' or '.woff' once lower-cased
ContainsFontSuffix(str) == str \in {"serif.TTF"}

IncludesNav(href) == \E i \in 1..Len(href.path) : href.path[i] \in {"nav.xhtml"}
IncludesNcx(href) == \E i \in 1..Len(href.path) : href.path[i] \in {"toc.ncx"}

DocPath(name) == <<"OEBPS", name>>

\* every file an archive of the model can contain
AllFiles ==
  {ContainerPath, OpfPath, NavPath, NcxPath, DocPath("123"), <<"OEBPS", "style.css">>}
    \cup {DocPath(n) : n \in DocNames}
    \cup {<<"OEBPS", "images", n>> : n \in {"front.jpg", "fig1.png", "BackCover.png", "scan.jpg"}}

\* the markup of a content file of the archive
DocAt(path) ==
  IF path = DocPath("123") THEN Docs["ch1.xhtml"] ELSE Docs[path[Len(path)]]

TocPool ==
  { RawToc("n1", <<"Chapter", "One">>, AnchorHref("ch1.xhtml", "s1"), 1),
    RawToc("n2", <<"Chapter", "Two">>, AnchorHref("ch1.xhtml", "s2"), 1),
    RawToc("n3", <<"Copyright">>, AnchorHref("ch2.xhtml", "s3"), 1),
    RawToc("", <<"Chapter", "Three">>, AnchorHref("ch2.xhtml", "s1"), 2),
    RawToc("n5", <<"Part", "Two">>, AnchorHref("ch2.xhtml", "s2"), 1),
    RawToc("n6", <<"Discovery">>, AnchorHref("ch1.xhtml", "zz"), 1),
    RawToc("n7", <<"The", "Story">>, AnchorHref("gone.xhtml", "s1"), 1),
    RawToc("n8", <<"Chapter", "Four">>, AnchorHref("ch2.xhtml", "s4"), 2) }

TocAt(id) == CHOOSE e \in TocPool : e.id = id

\* longer tables of contents: entries that give chapters next to entries
\* that are dropped
LongTocs ==
  { << TocAt("n1"), TocAt("n2"), TocAt("n3") >>,
    << TocAt("n1"), TocAt("n6"), TocAt("n8"), TocAt("") >>,
    << TocAt("n5"), TocAt("n7"), TocAt("n2"), TocAt("n8") >>,
    << TocAt(""), TocAt("n5"), TocAt("n8"), TocAt("n1") >>,
    << RawToc("n9", <<"The", "Story">>, AnchorHref("ch1.xhtml", "fn:1"), 1), TocAt("n2") >>,
    << RawToc("n10", <<"Chapter", "Five">>, AnchorHref("ch2.xhtml", "box"), 1), TocAt("n3") >>,
    << TocAt(""), TocAt("n8"), TocAt("n5") >>,
    << TocAt("n1"), TocAt("n8"), TocAt("n2") >> }

\* entries without a fragment, for the href index
FileTocs ==
  { << RawToc("f1", <<"Copyright">>, FileHref("ch1.xhtml"), 1),
       RawToc("f2", <<"The", "Story">>, FileHref("ch2.xhtml"), 1) >>,
    << RawToc("f3", <<"Discovery">>, DigitsHref("123"), 1) >> }

RawItemref(idref, linear) == [idref |-> idref, linear |-> linear]

SpinePool ==
  { RawItemref("ch1", "undefined"), RawItemref("ch1", "no"), RawItemref("ch2", "yes"),
    RawItemref("front", "undefined"), RawItemref("tiny", "undefined"),
    RawItemref("plate", "undefined"), RawItemref("names", "undefined"),
    RawItemref("ghost", "undefined"), RawItemref("num", "undefined") }

MetaPool ==
  { Element("dc:title", <<"Dune">>, FALSE),
    Element("dc:title", <<" ">>, FALSE),
    Element("dc:title", <<"Dune", " ", "Saga">>, TRUE),
    Element("title", <<" ", "Arrakis">>, FALSE),
    Element("dc:creator", <<"Herbert", " ">>, FALSE),
    Element("creator", <<"Frank">>, FALSE) }

\* longer spines: files that give chapters next to files that are passed over
LongSpines ==
  { << RawItemref("tiny", "undefined"), RawItemref("ch1", "undefined"), RawItemref("ch2", "yes") >>,
    << RawItemref("ch1", "undefined"), RawItemref("ghost", "undefined"),
       RawItemref("ch2", "yes"), RawItemref("front", "undefined") >>,
    << RawItemref("num", "undefined"), RawItemref("ch1", "no"),
       RawItemref("plate", "undefined"), RawItemref("ch2", "yes") >> }

PlainMeta == << Element("dc:title", <<"Dune">>, FALSE), Element("dc:creator", <<"Herbert">>, FALSE) >>

\* which navigation documents the archive has, and which libraries are loaded
NavMode(libs, navListed, navFile, navWF, ncxListed, ncxFile, ncxWF) ==
  [libs |-> libs, navListed |-> navListed, navFile |-> navFile, navWF |-> navWF,
   ncxListed |-> ncxListed, ncxFile |-> ncxFile, ncxWF |-> ncxWF]

NoNav(libs) == NavMode(libs, FALSE, FALSE, TRUE, FALSE, FALSE, TRUE)

NavModes ==
  { NavMode(4, FALSE, FALSE, TRUE, TRUE, TRUE, TRUE),     \* NCX, structured
    NavMode(4, TRUE, TRUE, TRUE, TRUE, TRUE, TRUE),       \* nav and NCX
    NavMode(4, TRUE, TRUE, FALSE, TRUE, TRUE, TRUE),      \* nav, malformed, and NCX
    NavMode(4, TRUE, TRUE, TRUE, FALSE, FALSE, TRUE),     \* nav only, structured
    NavMode(4, TRUE, TRUE, FALSE, FALSE, FALSE, TRUE),    \* nav only, malformed
    NavMode(4, FALSE, FALSE, TRUE, TRUE, TRUE, FALSE),    \* NCX, malformed
    NavMode(4, FALSE, FALSE, TRUE, TRUE, FALSE, TRUE),    \* NCX listed, file missing
    NavMode(2, FALSE, FALSE, TRUE, TRUE, TRUE, TRUE),     \* NCX, no HTML parser
    NavMode(1, TRUE, TRUE, TRUE, FALSE, FALSE, TRUE) }    \* nav, no library but fflate

Archive(zipOk, absent, rootfile, wellFormed, meta, extraItems, spine, mode, toc) ==
  [zipOk |-> zipOk,
   files |-> ((AllFiles \ absent) \ (IF mode.navFile THEN {} ELSE {NavPath}))
               \ (IF mode.ncxFile THEN {} ELSE {NcxPath}),
   rootfile |-> rootfile,
   opf |-> [wellFormed |-> wellFormed, meta |-> meta,
            manifest |-> (IF mode.ncxListed THEN <<NcxItem>> ELSE <<>>)
                           \o (IF mode.navListed THEN <<NavItem>> ELSE <<>>)
                           \o BookItems \o extraItems,
            spine |-> spine, version |-> "2.0"],
   nav |-> [wellFormed |-> mode.navWF, entries |-> IF mode.navFile THEN toc ELSE <<>>],
   ncx |-> [wellFormed |-> mode.ncxWF, entries |-> IF mode.ncxFile THEN toc ELSE <<>>]]

Run(libs, archive) == [libs |-> libs, epub |-> archive]

TwoChapterSpine == << RawItemref("ch1", "undefined"), RawItemref("ch2", "undefined") >>
NonLinearSpine == << RawItemref("ch1", "no"), RawItemref("ch2", "undefined") >>

\* archives with a table of contents: the anchor-driven strategy
AnchorRuns ==
  { Run(m.libs, Archive(TRUE, {}, <<OpfPath>>, TRUE, PlainMeta, <<>>, NonLinearSpine, m, toc)) :
      m \in NavModes, toc \in (SeqsUpTo(TocPool, MaxToc) \ {<<>>}) \cup LongTocs }

\* a spine whose second itemref names no manifest item
UnresolvedSpine ==
  << RawItemref("ch1", "undefined"), RawItemref("ghost", "undefined"),
     RawItemref("ch2", "undefined") >>

\* archives with a table of contents and an unresolved itemref
UnresolvedAnchorRuns ==
  { Run(4, Archive(TRUE, {}, <<OpfPath>>, TRUE, PlainMeta, <<>>, UnresolvedSpine,
                   NavMode(4, FALSE, FALSE, TRUE, TRUE, TRUE, TRUE), toc)) : toc \in LongTocs }

\* archives without navigation: the chapters come from the spine
SpineRuns ==
  { Run(libs, Archive(TRUE, absent, <<OpfPath>>, TRUE, PlainMeta, <<NumItem>>, spine,
                      NoNav(libs), <<>>)) :
      libs \in {1, 4}, absent \in {{}, {DocPath("ch2.xhtml")}},
      spine \in SeqsUpTo(SpinePool, MaxSpine) \cup LongSpines }

\* archives whose NCX names whole files: the spine-driven strategy with a
\* table of contents to take titles from
TitledSpineRuns ==
  { Run(4, Archive(TRUE, {}, <<OpfPath>>, wf, PlainMeta, extra, spine,
                   NavMode(4, FALSE, FALSE, TRUE, TRUE, TRUE, TRUE), toc)) :
      toc \in FileTocs, wf \in BOOLEAN, extra \in {<<>>, <<NumItem>>},
      spine \in SeqsUpTo({RawItemref("ch1", "undefined"), RawItemref("ch2", "yes"),
                          RawItemref("front", "undefined")}, MaxSpine) }

\* archives whose chapters take their titles from every source in turn
EssaySpines ==
  { << RawItemref("essay", "undefined"), RawItemref("long", "undefined") >>,
    << RawItemref("year", "undefined"), RawItemref("poem", "undefined"),
       RawItemref("essay", "undefined") >> }

EssayTocs ==
  { << RawToc("e1", <<"The", "Story">>, FileHref("essay.xhtml"), 2),
       RawToc("e2", <<"Preface">>, FileHref("long.xhtml"), 1),
       RawToc("e3", <<"Discovery">>, FileHref("poem.xhtml"), 1) >>,
    << RawToc("e4", <<"Copyright">>, FileHref("year.xhtml"), 1),
       RawToc("e5", <<"Discovery">>, AnchorHref("essay.xhtml", "zz"), 1),
       RawToc("e6", <<"The", "Story">>, FileHref("essay.xhtml"), 1) >> }

EssayRuns ==
  { Run(libs, Archive(TRUE, {}, <<OpfPath>>, TRUE, PlainMeta, EssayItems, spine,
                      NoNav(libs), <<>>)) : libs \in {1, 4}, spine \in EssaySpines }
    \cup
  { Run(4, Archive(TRUE, {}, <<OpfPath>>, TRUE, PlainMeta, EssayItems, spine,
                   NavMode(4, FALSE, FALSE, TRUE, TRUE, TRUE, TRUE), toc)) :
      spine \in EssaySpines, toc \in EssayTocs }

\* archives with images, stylesheets and fonts
ResourceRuns ==
  { Run(libs, Archive(TRUE, {}, <<OpfPath>>, TRUE, PlainMeta, extra, TwoChapterSpine,
                      NoNav(libs), <<>>)) :
      libs \in {1, 4}, extra \in SeqsUpTo(ResourcePool, MaxResources) \cup LongResources }

\* archives whose package document varies
MetadataRuns ==
  { Run(libs, Archive(TRUE, {}, <<OpfPath>>, wf, meta, <<>>, TwoChapterSpine, NoNav(libs), <<>>)) :
      libs \in {1, 2, 4}, wf \in BOOLEAN, meta \in SeqsUpTo(MetaPool, MaxMeta) }

\* archives and library states that make the parse fail early
BrokenRuns ==
  { Run(libs, Archive(zipOk, absent, rootfile, TRUE, PlainMeta, <<>>, spine, m, toc)) :
      libs \in {0, 1, 4}, zipOk \in BOOLEAN,
      absent \in {{}, {ContainerPath}, {OpfPath}, {ContainerPath, OpfPath}},
      rootfile \in {<<>>, <<OpfPath>>},
      spine \in {TwoChapterSpine}, m \in {NoNav(4), NavMode(4, FALSE, FALSE, TRUE, TRUE, TRUE, TRUE)},
      toc \in {<<>>, << RawToc("n1", <<"Chapter", "One">>, AnchorHref("ch1.xhtml", "s1"), 1) >>} }

Runs ==
  AnchorRuns \cup UnresolvedAnchorRuns \cup EssayRuns \cup SpineRuns \cup TitledSpineRuns \cup ResourceRuns \cup MetadataRuns
    \cup BrokenRuns

-----------------------------------------------------------------------------
(* parseEpubContent, lines 3261-3582 *)

NoPackage ==
  [metadata |-> [title |-> UndefSeq, creator |-> UndefSeq],
   manifest |-> <<>>, spine |-> <<>>, version |-> "undefined"]

NoItem == [id |-> "", href |-> EmptyHref, mediaType |-> "", properties |-> <<>>]

NoResources == [coverImage |-> UndefSeq, images |-> <<>>, stylesheets |-> <<>>, fonts |-> <<>>]

NoDoc == [returned |-> FALSE]

\* no request is being handled
NoRequest == [foreignFile |-> "none", nativeFile |-> "none", ownerId |-> FALSE,
              visibility |-> "private"]
NoOutcome == [state |-> "pending", cover |-> <<"undefined">>, chapters |-> 0, error |-> ""]
NoResponse == [status |-> 0, success |-> FALSE, error |-> "",
               foreignParsed |-> FALSE, nativeParsed |-> FALSE,
               foreignError |-> "", nativeError |-> ""]

NormalizerIdle ==
  /\ npc = "off"
  /\ rawHtml = <<>>
  /\ plainText = <<>>
  /\ displayHtml = <<>>

HandlerIdle ==
  /\ hpc = "off"
  /\ request = NoRequest
  /\ processed = {}
  /\ storage = {}
  /\ buckets = [name \in {"public-books", "private-books"} |-> "absent"]
  /\ parsed = [side \in {"foreign", "native"} |-> NoOutcome]
  /\ books = {}
  /\ pairs = {}
  /\ response = NoResponse
  /\ failed = "none"
  /\ trace = <<>>

Init ==
  /\ \E r \in Runs : libsLoaded = r.libs /\ epub = r.epub
  /\ HandlerIdle
  /\ NormalizerIdle
  /\ pc = "start"
  /\ packageData = NoPackage
  /\ tableOfContents = <<>>
  /\ tocMapping = <<>>
  /\ anchorsByFile = <<>>
  /\ fileIdx = 0
  /\ fileItem = NoItem
  /\ anchorIdx = 0
  /\ spineIdx = 0
  /\ chapters = <<>>
  /\ totalWordCount = 0
  /\ chapterNumber = 1
  /\ warnings = <<>>
  /\ resources = NoResources
  /\ resIdx = 0
  /\ doc = NoDoc

PackagePath == epub.rootfile[1]

\* lines 3268-3271; a throw is caught at 3578 and rethrown: no document
ExtractZip ==
  /\ pc = "start"
  /\ pc' = IF FflateLoaded /\ epub.zipOk THEN "container" ELSE "fatal"
  /\ UNCHANGED <<aside, libsLoaded, epub, packageData, tableOfContents, tocMapping, anchorsByFile,
                 fileIdx, fileItem, anchorIdx, spineIdx, chapters, totalWordCount,
                 chapterNumber, warnings, resources, resIdx, doc>>

ResolveContainer_Unchecked ==
  /\ pc = "container"
  /\ pc' = IF epub.rootfile # <<>> THEN "package" ELSE "fatal"
  /\ UNCHANGED <<aside, libsLoaded, epub, packageData, tableOfContents, tocMapping, anchorsByFile,
                 fileIdx, fileItem, anchorIdx, spineIdx, chapters, totalWordCount,
                 chapterNumber, warnings, resources, resIdx, doc>>

\* lines 3273-3282 with extractPackagePathFast, lines 3585-3608
ResolveContainer ==
  /\ pc = "container"
  /\ pc' = IF ContainerPath \in epub.files /\ epub.rootfile # <<>> THEN "package" ELSE "fatal"
  /\ UNCHANGED <<aside, libsLoaded, epub, packageData, tableOfContents, tocMapping, anchorsByFile,
                 fileIdx, fileItem, anchorIdx, spineIdx, chapters, totalWordCount,
                 chapterNumber, warnings, resources, resIdx, doc>>

\* lines 3284-3292
LoadPackage ==
  /\ pc = "package"
  /\ IF PackagePath \in epub.files
     THEN /\ packageData' = parsePackageDocumentFast(epub.opf)
          /\ pc' = "navigation"
     ELSE /\ pc' = "fatal"
          /\ UNCHANGED packageData
  /\ UNCHANGED <<aside, libsLoaded, epub, tableOfContents, tocMapping, anchorsByFile,
                 fileIdx, fileItem, anchorIdx, spineIdx, chapters, totalWordCount,
                 chapterNumber, warnings, resources, resIdx, doc>>

\* the two manifest.find callbacks of lines 3300-3303 and 3317-3319;
\* href.includes is not a function when the href is a number
NavTest(item) ==
  \/ "nav" \in Range(item.properties)
  \/ item.mediaType = Xhtml /\ ~item.href.num /\ IncludesNav(item.href)
NavTestThrows(item) ==
  "nav" \notin Range(item.properties) /\ item.mediaType = Xhtml /\ item.href.num
NcxTest(item) == item.mediaType = NcxType \/ (~item.href.num /\ IncludesNcx(item.href))
NcxTestThrows(item) == item.mediaType # NcxType /\ item.href.num

Lookup(manifest, Test(_), Throws(_)) ==
  LET i == FirstIndex(manifest, LAMBDA it : Test(it) \/ Throws(it))
  IN [idx |-> i, threw |-> i # 0 /\ Throws(manifest[i])]

FileOf(item) == resolveHref(PackagePath, item.href)

\* if (tableOfContents.length === 0), line 3315
NcxNeeded_Always(navToc) == TRUE
NcxNeeded(navToc) == navToc = <<>>

\* lines 3294-3349: the table of contents, the href index, and whether the
\* block ended in its catch
Navigation(rnd) ==
  LET manifest == packageData.manifest
      nav == Lookup(manifest, NavTest, NavTestThrows)
      navToc == IF nav.idx # 0 /\ ~nav.threw /\ FileOf(manifest[nav.idx]) \in epub.files
                THEN parseNavigationDocumentFast(epub.nav) ELSE <<>>
      ncx == Lookup(manifest, NcxTest, NcxTestThrows)
      ncxReached == ~nav.threw /\ NcxNeeded(navToc)
      ncxParsed == ncxReached /\ ncx.idx # 0 /\ ~ncx.threw
                     /\ FileOf(manifest[ncx.idx]) \in epub.files
      toc == IF ncxParsed THEN parseNCXDocument(epub.ncx, rnd)
             ELSE IF nav.threw \/ (ncxReached /\ ncx.threw) THEN <<>> ELSE navToc
      findThrew == nav.threw \/ (ncxReached /\ ncx.threw)
      numAt == FirstIndex(toc, LAMBDA e : e.href.num)
  IN [toc |-> toc,
      mapping |-> IF findThrew THEN <<>>
                  ELSE IF numAt # 0 THEN SubSeq(toc, 1, numAt - 1) ELSE toc,
      threw |-> findThrew \/ numAt # 0]

ParseNavigation ==
  /\ pc = "navigation"
  /\ \E rnd \in RandomDraws(epub.ncx) :
       LET r == Navigation(rnd)
       IN /\ tableOfContents' = r.toc
          /\ tocMapping' = r.mapping
          /\ warnings' = IF r.threw THEN Append(warnings, <<"Failed to parse navigation">>)
                         ELSE warnings
  /\ pc' = "anchors"
  /\ UNCHANGED <<aside, libsLoaded, epub, packageData, anchorsByFile, fileIdx, fileItem, anchorIdx,
                 spineIdx, chapters, totalWordCount, chapterNumber, resources, resIdx, doc>>

\* tocMapping.get(cleanHref): the entry set last for the key, if any
TocLookup(cleanHref) ==
  LET hits == SelectIdx(Len(tocMapping), LAMBDA i : FilePart(tocMapping[i].href) = cleanHref)
  IN IF hits = <<>> THEN <<>> ELSE <<tocMapping[hits[Len(hits)]]>>

\* the object pushed at lines 3367-3372
AnchorInfo_FlatLevel(e) == [anchor |-> e.href.frag, title |-> e.title, href |-> e.href, level |-> 1]
AnchorInfo(e) == [anchor |-> e.href.frag, title |-> e.title, href |-> e.href, level |-> e.level]

\* collectAnchors, lines 3361-3380
collectAnchors(toc) ==
  LET kept == SelectIdx(Len(toc), LAMBDA i : toc[i].href.hash /\ toc[i].href.frag # "")
  IN [k \in 1..Len(kept) |-> AnchorInfo(toc[kept[k]])]

\* lines 3382-3390: a Map keeps its keys in insertion order
groupByFile(allAnchors) ==
  LET firsts == SelectIdx(Len(allAnchors),
                   LAMBDA i : \A k \in 1..(i - 1) :
                                 FilePart(allAnchors[k].href) # FilePart(allAnchors[i].href))
  IN [g \in 1..Len(firsts) |->
        [file |-> FilePart(allAnchors[firsts[g]].href),
         anchors |-> SelectSeq(allAnchors,
                       LAMBDA a : FilePart(a.href) = FilePart(allAnchors[firsts[g]].href))]]

\* lines 3356-3390; entry.href.includes throws on a numeric href, outside
\* every inner try: the parse fails
CollectAnchors ==
  /\ pc = "anchors"
  /\ IF tableOfContents = <<>>
     THEN /\ pc' = "spine"
          /\ spineIdx' = 1
          /\ UNCHANGED <<anchorsByFile, fileIdx>>
     ELSE IF \E i \in 1..Len(tableOfContents) : tableOfContents[i].href.num
     THEN /\ pc' = "fatal"
          /\ UNCHANGED <<anchorsByFile, fileIdx, spineIdx>>
     ELSE /\ anchorsByFile' = groupByFile(collectAnchors(tableOfContents))
          /\ fileIdx' = 1
          /\ pc' = "anchorFile"
          /\ UNCHANGED spineIdx
  /\ UNCHANGED <<aside, libsLoaded, epub, packageData, tableOfContents, tocMapping, fileItem,
                 anchorIdx, chapters, totalWordCount, chapterNumber, warnings, resources,
                 resIdx, doc>>

\* if (chapters.length === 0), line 3457
FallbackNeeded_Always(chs) == TRUE
FallbackNeeded(chs) == chs = <<>>

\* lines 3393-3403 and the guard of line 3457 once the groups are exhausted
OpenAnchorFile ==
  /\ pc = "anchorFile"
  /\ IF fileIdx > Len(anchorsByFile)
     THEN /\ pc' = IF FallbackNeeded(chapters) THEN "spine" ELSE "resources"
          /\ spineIdx' = 1
          /\ resIdx' = 1
          /\ UNCHANGED <<fileIdx, fileItem, anchorIdx>>
     ELSE LET fileName == anchorsByFile[fileIdx].file
              mi == FirstIndex(packageData.manifest,
                               LAMBDA it : ~it.href.num /\ it.href = fileName)
          IN /\ IF mi # 0 /\ FileOf(packageData.manifest[mi]) \in epub.files
                THEN /\ fileItem' = packageData.manifest[mi]
                     /\ anchorIdx' = 1
                     /\ pc' = "anchor"
                     /\ UNCHANGED fileIdx
                ELSE /\ fileIdx' = fileIdx + 1
                     /\ UNCHANGED <<fileItem, anchorIdx, pc>>
             /\ UNCHANGED <<spineIdx, resIdx>>
  /\ UNCHANGED <<aside, libsLoaded, epub, packageData, tableOfContents, tocMapping, anchorsByFile,
                 chapters, totalWordCount, chapterNumber, warnings, resources, doc>>

\* order: chapterNumber - 1, lines 3439 and 3512
ChapterOrder_FromOne(n) == n
ChapterOrder(n) == n - 1

\* totalWordCount += wordCount, lines 3430 and 3488
AccumulateWords_Overwrite(total, wordCount) == wordCount
AccumulateWords(total, wordCount) == total + wordCount

\* the condition of line 3495; tocEntry is <<>> or << the entry >>
TrustTocTitle_NoFilter(tocEntry) == tocEntry # <<>> /\ tocEntry[1].title # <<>>
TrustTocTitle(tocEntry) ==
  tocEntry # <<>> /\ tocEntry[1].title # <<>> /\ ~isFrontMatterTitle(tocEntry[1].title)

Chapter(id, title, href, text, wordCount, order, level, titleFrom, strategy, section) ==
  [id |-> id, title |-> title, href |-> href, textContent |-> text, wordCount |-> wordCount,
   order |-> order, level |-> level, titleFrom |-> titleFrom, strategy |-> strategy,
   section |-> section]

\* if (wordCount < 50), line 3425
BelowMinimum_Never(wordCount) == FALSE
BelowMinimum(wordCount) == wordCount < 50

\* one iteration of the loop of lines 3406-3449
ProcessAnchor ==
  /\ pc = "anchor"
  /\ IF anchorIdx > Len(anchorsByFile[fileIdx].anchors)
     THEN /\ fileIdx' = fileIdx + 1
          /\ pc' = "anchorFile"
          /\ UNCHANGED <<anchorIdx, chapters, totalWordCount, chapterNumber>>
     ELSE LET anchors == anchorsByFile[fileIdx].anchors
              anchor == anchors[anchorIdx]
              nextAnchors == {anchors[k].anchor : k \in (anchorIdx + 1)..Len(anchors)}
              d == DocAt(FileOf(fileItem))
              sectionHtml == sliceSection(d, anchor.anchor, nextAnchors)
              textContent == extractTextFromHtml(d, sectionHtml)
              wordCount == countWords(textContent)
          IN /\ anchorIdx' = anchorIdx + 1
             /\ UNCHANGED <<fileIdx, pc>>
             /\ IF \/ isFrontMatterPage(textContent, wordCount, fileItem)
                   \/ isFrontMatterTitle(anchor.title)
                   \/ BelowMinimum(wordCount)
                THEN UNCHANGED <<chapters, totalWordCount, chapterNumber>>
                ELSE /\ totalWordCount' = AccumulateWords(totalWordCount, wordCount)
                     /\ chapters' = Append(chapters,
                           Chapter(<<fileItem.id, anchor.anchor>>, anchor.title, anchor.href,
                                   textContent, wordCount, ChapterOrder(chapterNumber), anchor.level,
                                   "toc", "anchor", sectionHtml))
                     /\ chapterNumber' = chapterNumber + 1
  /\ UNCHANGED <<aside, libsLoaded, epub, packageData, tableOfContents, tocMapping, anchorsByFile,
                 fileItem, spineIdx, warnings, resources, resIdx, doc>>


\* one iteration of the loop of lines 3460-3522
SpineStep ==
  /\ pc = "spine"
  /\ IF spineIdx > Len(packageData.spine)
     THEN /\ pc' = "resources"
          /\ resIdx' = 1
          /\ UNCHANGED <<spineIdx, chapters, totalWordCount, chapterNumber, warnings>>
     ELSE LET spineItem == packageData.spine[spineIdx]
              mi == FirstIndex(packageData.manifest, LAMBDA it : it.id = spineItem.idref)
              manifestItem == packageData.manifest[mi]
              d == DocAt(FileOf(manifestItem))
              htmlContent == AllPieces(d)
              textContent == extractTextFromHtml(d, htmlContent)
              wordCount == countWords(textContent)
              tocEntry == TocLookup(FilePart(manifestItem.href))
              useToc == TrustTocTitle(tocEntry)
              title == IF useToc THEN tocEntry[1].title
                       ELSE extractChapterTitleEnhanced(d, manifestItem.id)
              level == IF tocEntry # <<>> THEN tocEntry[1].level ELSE 1
          IN /\ spineIdx' = spineIdx + 1
             /\ UNCHANGED <<pc, resIdx>>
             /\ IF mi = 0
                THEN /\ warnings' = Append(warnings,
                                      <<"Spine item not found in manifest", spineItem.idref>>)
                     /\ UNCHANGED <<chapters, totalWordCount, chapterNumber>>
                ELSE IF manifestItem.href.num
                THEN \* resolveHref: href.startsWith is not a function
                     /\ warnings' = Append(warnings,
                                      <<"Failed to process spine chapter", IdxStr(spineIdx - 1)>>)
                     /\ UNCHANGED <<chapters, totalWordCount, chapterNumber>>
                ELSE IF FileOf(manifestItem) \notin epub.files
                THEN /\ warnings' = Append(warnings,
                                      <<"Chapter file not found">> \o FileOf(manifestItem))
                     /\ UNCHANGED <<chapters, totalWordCount, chapterNumber>>
                ELSE IF isFrontMatterPage(textContent, wordCount, manifestItem)
                THEN UNCHANGED <<chapters, totalWordCount, chapterNumber, warnings>>
                ELSE /\ totalWordCount' = AccumulateWords(totalWordCount, wordCount)
                     /\ chapters' = Append(chapters,
                           Chapter(<<manifestItem.id>>, title, manifestItem.href, textContent,
                                   wordCount, ChapterOrder(chapterNumber), level,
                                   IF useToc THEN "toc" ELSE "extracted", "spine", htmlContent))
                     /\ chapterNumber' = chapterNumber + 1
                     /\ UNCHANGED warnings
  /\ UNCHANGED <<aside, libsLoaded, epub, packageData, tableOfContents, tocMapping, anchorsByFile,
                 fileIdx, fileItem, anchorIdx, resources, doc>>

-----------------------------------------------------------------------------
(* Resource Extractor *)

EmbedLimit == 100000

IsImageType(mediaType) == mediaType \in {"image/jpeg", "image/png"}
IsFontType(mediaType) == mediaType \in {"font/ttf", "font/woff"}

\* 'data:' + mediaType + ';base64,' + btoa(bytes of the file)
DataUri(mediaType, name) == <<"data:", mediaType, ";base64,", name>>

\* lines 3958-3967
ImageResource_HrefAsData(item, base64) ==
  [id |-> item.id, href |-> item.href, mediaType |-> item.mediaType, base64 |-> item.href.path]
ImageResource(item, base64) ==
  [id |-> item.id, href |-> item.href, mediaType |-> item.mediaType, base64 |-> base64]

\* lines 3972-3974
LooksLikeCover(item) ==
  \/ "cover-image" \in Range(item.properties)
  \/ \E i \in 1..Len(item.href.path) : ContainsCover(item.href.path[i])
  \/ ContainsCover(item.id)

\* the body of the loop of lines 3947-3999 for one manifest item; overflow
\* tells whether String.fromCharCode(...imageFile) exceeded the argument
\* limit of the engine, which can only happen for a large file
processResource(res, item, overflow) ==
  IF IsImageType(item.mediaType)
  THEN IF item.href.num \/ FileOf(item) \notin epub.files THEN res
       ELSE LET name == item.href.path[Len(item.href.path)]
                imageSize == ImageSize(name)
                base64 == IF imageSize < EmbedLimit THEN DataUri(item.mediaType, name)
                          ELSE UndefSeq
                imageResource == ImageResource(item, base64)
                pushed == [res EXCEPT !.images = Append(@, imageResource)]
            IN IF overflow /\ imageSize >= EmbedLimit THEN res
               ELSE IF LooksLikeCover(item)
                    THEN [pushed EXCEPT !.coverImage = imageResource.base64]
                    ELSE pushed
  ELSE IF item.mediaType = "text/css"
  THEN IF ~item.href.num /\ FileOf(item) \in epub.files
       THEN [res EXCEPT !.stylesheets = Append(@, item.href.path)]
       ELSE res
  ELSE IF IsFontType(item.mediaType)
          \/ (~item.href.num /\ \E i \in 1..Len(item.href.path) : ContainsFontSuffix(item.href.path[i]))
  THEN [res EXCEPT !.fonts = Append(@, [id |-> item.id, href |-> item.href,
                                         mediaType |-> item.mediaType, fontFamily |-> item.id])]
  ELSE res

\* whether the body of the loop throws for the item: resolveHref or
\* toLowerCase on a numeric href, String.fromCharCode(...imageFile) on a
\* file too large for the argument limit
ResourceThrows(item, overflow) ==
  IF IsImageType(item.mediaType)
  THEN \/ item.href.num
       \/ FileOf(item) \in epub.files /\ overflow
          /\ ImageSize(item.href.path[Len(item.href.path)]) >= EmbedLimit
  ELSE IF item.mediaType = "text/css" THEN item.href.num
  ELSE ~IsFontType(item.mediaType) /\ item.href.num

\* the loop with its try around the whole loop instead of around the body
ResourceStep_AbortOnThrow ==
  /\ pc = "resources"
  /\ IF resIdx > Len(packageData.manifest)
     THEN /\ pc' = "assemble"
          /\ UNCHANGED <<resources, resIdx>>
     ELSE \E overflow \in BOOLEAN :
            IF ResourceThrows(packageData.manifest[resIdx], overflow)
            THEN /\ pc' = "assemble"
                 /\ UNCHANGED <<resources, resIdx>>
            ELSE /\ resources' = processResource(resources, packageData.manifest[resIdx],
                                                 overflow)
                 /\ resIdx' = resIdx + 1
                 /\ UNCHANGED pc
  /\ UNCHANGED <<aside, libsLoaded, epub, packageData, tableOfContents, tocMapping, anchorsByFile,
                 fileIdx, fileItem, anchorIdx, spineIdx, chapters, totalWordCount,
                 chapterNumber, warnings, doc>>

\* processEpubResourcesFast, lines 3936-4008, one manifest item per step
ResourceStep ==
  /\ pc = "resources"
  /\ IF resIdx > Len(packageData.manifest)
     THEN /\ pc' = "assemble"
          /\ UNCHANGED <<resources, resIdx>>
     ELSE /\ \E overflow \in BOOLEAN :
               resources' = processResource(resources, packageData.manifest[resIdx], overflow)
          /\ resIdx' = resIdx + 1
          /\ UNCHANGED pc
  /\ UNCHANGED <<aside, libsLoaded, epub, packageData, tableOfContents, tocMapping, anchorsByFile,
                 fileIdx, fileItem, anchorIdx, spineIdx, chapters, totalWordCount,
                 chapterNumber, warnings, doc>>

-----------------------------------------------------------------------------
(* The returned document, lines 3528-3576 *)

UnknownTitle == <<"Unknown Title">>
UnknownAuthor == <<"Unknown Author">>

SpineEntry(item) ==
  LET mi == FirstIndex(packageData.manifest, LAMBDA m : m.id = item.idref)
  IN [id |-> item.idref,
      href |-> IF mi = 0 THEN EmptyHref ELSE packageData.manifest[mi].href,
      mediaType |-> IF mi = 0 THEN Xhtml ELSE packageData.manifest[mi].mediaType,
      linear |-> item.linear # "no"]

Assemble ==
  /\ pc = "assemble"
  /\ doc' = [returned |-> TRUE,
             metadata |-> [title |-> OrElse(packageData.metadata.title, UnknownTitle),
                           author |-> OrElse(packageData.metadata.creator, UnknownAuthor)],
             structure |-> [totalChapters |-> Len(chapters),
                            estimatedReadingTime |-> (totalWordCount + 199) \div 200,
                            wordCount |-> totalWordCount,
                            tableOfContents |-> tableOfContents,
                            spine |-> [i \in 1..Len(packageData.spine) |->
                                         SpineEntry(packageData.spine[i])]],
             chapters |-> chapters,
             resources |-> resources,
             parsing |-> [epubVersion |-> packageData.version, warnings |-> warnings]]
  /\ pc' = "done"
  /\ UNCHANGED <<aside, libsLoaded, epub, packageData, tableOfContents, tocMapping, anchorsByFile,
                 fileIdx, fileItem, anchorIdx, spineIdx, chapters, totalWordCount,
                 chapterNumber, warnings, resources, resIdx>>

Next ==
  \/ ExtractZip
  \/ ResolveContainer
  \/ LoadPackage
  \/ ParseNavigation
  \/ CollectAnchors
  \/ OpenAnchorFile
  \/ ProcessAnchor
  \/ SpineStep
  \/ ResourceStep
  \/ Assemble

Spec == Init /\ [][Next]_vars

TypeOK ==
  /\ pc \in {"start", "container", "package", "navigation", "anchors", "anchorFile", "anchor",
             "spine", "resources", "assemble", "done", "fatal"}
  /\ doc.returned = (pc = "done")
  /\ chapterNumber = Len(chapters) + 1

-----------------------------------------------------------------------------
(* The request handler, Deno.serve, lines 4020-4420.  One behaviour of      *)
(* HandlerSpec is one request; parseEpubContent is taken by its outcome.    *)

Sides == {"foreign", "native"}

\* what an uploaded file can be: no file, an EPUB, a ZIP holding an EPUB,
\* a ZIP holding none, a file of another type
FileKinds == {"none", "epub", "zip", "emptyZip", "txt"}

Requests ==
  { [foreignFile |-> f, nativeFile |-> n, ownerId |-> o, visibility |-> v] :
      f \in FileKinds, n \in FileKinds, o \in BOOLEAN, v \in {"public", "private"} }

Threw(message) == [state |-> "threw", cover |-> UndefSeq, chapters |-> 0, error |-> message]
Parsed(cover, n) == [state |-> "ok", cover |-> cover, chapters |-> n, error |-> ""]

\* what parseEpubContent can do: throw its wrapped error (line 3580) or
\* return a document, with or without a cover
ParseOutcomes ==
  { Threw("EPUB parsing failed: Invalid EPUB: META-INF/container.xml not found"),
    Threw("EPUB parsing failed: fflate library not available"),
    Parsed(UndefSeq, 0),
    Parsed(<<"data:", "image/jpeg", ";base64,", "front.jpg">>, 2) }

\* the statements of the handler in program order
Steps ==
  << "validate", "unpackForeign", "unpackNative", "uploadForeign", "uploadNative",
     "parseForeign", "parseNative", "insertForeign", "insertNative", "insertPair", "respond" >>

\* the same statements with the parses moved after the row inserts
Steps_ParseLast ==
  << "validate", "unpackForeign", "unpackNative", "uploadForeign", "uploadNative",
     "insertForeign", "insertNative", "parseForeign", "parseNative", "insertPair", "respond" >>

\* the same statements with each upload right after its unpacking
Steps_UploadEarly ==
  << "validate", "unpackForeign", "uploadForeign", "unpackNative", "uploadNative",
     "parseForeign", "parseNative", "insertForeign", "insertNative", "insertPair", "respond" >>

StepAfter_UploadEarly(step) ==
  LET i == CHOOSE k \in 1..Len(Steps_UploadEarly) : Steps_UploadEarly[k] = step
  IN Steps_UploadEarly[i + 1]

StepAfter_ParseLast(step) ==
  LET i == CHOOSE k \in 1..Len(Steps_ParseLast) : Steps_ParseLast[k] = step
  IN Steps_ParseLast[i + 1]

\* the statement that follows a statement that completed, lines 4242-4359
StepAfter(step) ==
  LET i == CHOOSE k \in 1..Len(Steps) : Steps[k] = step
  IN Steps[i + 1]

StepOf(kind, side) ==
  CASE kind = "unpack" -> IF side = "foreign" THEN "unpackForeign" ELSE "unpackNative"
    [] kind = "upload" -> IF side = "foreign" THEN "uploadForeign" ELSE "uploadNative"
    [] kind = "parse" -> IF side = "foreign" THEN "parseForeign" ELSE "parseNative"
    [] kind = "insert" -> IF side = "foreign" THEN "insertForeign" ELSE "insertNative"

BucketName == IF request.visibility = "public" THEN "public-books" ELSE "private-books"

\* the object uploadFileToStorage writes for a side, lines 4171-4173
StorageObject(side) == [bucket |-> BucketName, side |-> side]

NullSeq == <<"null">>

\* bookData of createBookRecord, lines 4215-4227
BookRow(side, outcome) ==
  [id |-> side, side |-> side, epub_path |-> StorageObject(side),
   cover_url |-> IF outcome.state = "ok" /\ ~Falsy(outcome.cover) THEN outcome.cover
                 ELSE NullSeq,
   json_blob |-> IF outcome.state = "ok" THEN <<outcome>> ELSE <<>>]

\* the outer catch, lines 4388-4410: an error response, nothing else
ErrorResponse(message) == [NoResponse EXCEPT !.status = 500, !.error = message]

\* a statement completed: go on with the next one
Completed(step) ==
  /\ hpc' = StepAfter(step)
  /\ trace' = Append(trace, step)

\* a statement threw: the outer catch answers
Thrown(step, message) ==
  /\ hpc' = "done"
  /\ failed' = step
  /\ response' = ErrorResponse(message)

\* lines 4057-4070
Validate ==
  /\ hpc = "validate"
  /\ IF request.foreignFile = "none" \/ request.nativeFile = "none" \/ ~request.ownerId
     THEN /\ hpc' = "done"
          /\ response' = [NoResponse EXCEPT !.status = 400,
                            !.error = "Missing required fields: foreignFile, nativeFile, ownerId"]
          /\ UNCHANGED trace
     ELSE /\ Completed("validate")
          /\ UNCHANGED response
  /\ UNCHANGED <<libsLoaded, pstate, nvars>>
  /\ UNCHANGED <<request, processed, storage, buckets, parsed, books, pairs, failed>>

FileOfSide(side) == IF side = "foreign" THEN request.foreignFile ELSE request.nativeFile

\* processUploadedFile, lines 4075-4128, called at 4244 and 4247
Unpack(side) ==
  /\ hpc = StepOf("unpack", side)
  /\ LET kind == FileOfSide(side)
     IN IF kind = "epub" \/ (kind = "zip" /\ FflateLoaded)
        THEN /\ processed' = processed \cup {side}
             /\ Completed(hpc)
             /\ UNCHANGED <<response, failed>>
        ELSE /\ Thrown(hpc, IF kind = "txt" THEN "Unsupported file type"
                            ELSE "Failed to decompress ZIP file")
             /\ UNCHANGED <<processed, trace>>
  /\ UNCHANGED <<libsLoaded, pstate, nvars>>
  /\ UNCHANGED <<request, storage, buckets, parsed, books, pairs>>

BucketNames == {"public-books", "private-books"}

\* ensureBucketExists, lines 4131-4161, when it does not throw: createBucket
\* makes a bucket that is absent; for one that exists it answers 'already
\* exists' and updateBucket sets its configuration, unless that call fails
EnsuredBuckets(name, updateOk) ==
  [buckets EXCEPT ![name] = IF buckets[name] = "absent" THEN "created"
                            ELSE IF updateOk THEN "updated" ELSE buckets[name]]

\* uploadFileToStorage, lines 4164-4200, called at 4251 and 4254; the bucket
\* call and the upload call can each fail
Upload(side) ==
  /\ hpc = StepOf("upload", side)
  /\ \E bucketOk \in BOOLEAN, updateOk \in BOOLEAN, uploadOk \in BOOLEAN :
       IF ~bucketOk
       THEN /\ Thrown(hpc, "Failed to create bucket")
            /\ UNCHANGED <<storage, buckets, trace>>
       ELSE /\ buckets' = EnsuredBuckets(BucketName, updateOk)
            /\ IF uploadOk
               THEN /\ storage' = storage \cup {StorageObject(side)}
                    /\ Completed(hpc)
                    /\ UNCHANGED <<response, failed>>
               ELSE /\ Thrown(hpc, "File upload failed")
                    /\ UNCHANGED <<storage, trace>>
  /\ UNCHANGED <<libsLoaded, pstate, nvars>>
  /\ UNCHANGED <<request, processed, parsed, books, pairs>>

\* a parse call whose throw is not caught locally
Parse_Uncaught(side) ==
  /\ hpc = StepOf("parse", side)
  /\ \E outcome \in ParseOutcomes :
       IF outcome.state = "threw"
       THEN /\ Thrown(hpc, outcome.error)
            /\ UNCHANGED <<parsed, trace>>
       ELSE /\ parsed' = [parsed EXCEPT ![side] = outcome]
            /\ Completed(hpc)
            /\ UNCHANGED <<response, failed>>
  /\ UNCHANGED <<libsLoaded, pstate, nvars>>
  /\ UNCHANGED <<request, processed, storage, buckets, books, pairs>>

\* the try/catch around parseEpubContent, lines 4265-4284 and 4286-4305
Parse(side) ==
  /\ hpc = StepOf("parse", side)
  /\ \E outcome \in ParseOutcomes : parsed' = [parsed EXCEPT ![side] = outcome]
  /\ Completed(hpc)
  /\ UNCHANGED <<libsLoaded, pstate, nvars>>
  /\ UNCHANGED <<request, processed, storage, buckets, books, pairs, response, failed>>

\* createBookRecord, lines 4203-4240, called at 4315 and 4324
InsertBook(side) ==
  /\ hpc = StepOf("insert", side)
  /\ \E insertOk \in BOOLEAN :
       IF insertOk
       THEN /\ books' = books \cup {BookRow(side, parsed[side])}
            /\ Completed(hpc)
            /\ UNCHANGED <<response, failed>>
       ELSE /\ Thrown(hpc, "Book creation failed")
            /\ UNCHANGED <<books, trace>>
  /\ UNCHANGED <<libsLoaded, pstate, nvars>>
  /\ UNCHANGED <<request, processed, storage, buckets, parsed, pairs>>

\* lines 4334-4355: the pair insert; on pairError the uploads are removed
\* and the two rows deleted, the result of none of the three calls is looked at
InsertPair ==
  /\ hpc = "insertPair"
  /\ \E insertOk \in BOOLEAN :
       IF insertOk
       THEN /\ pairs' = pairs \cup {[foreign_book_id |-> "foreign", native_book_id |-> "native"]}
            /\ Completed(hpc)
            /\ UNCHANGED <<storage, books, response, failed>>
       ELSE /\ \E removed \in BOOLEAN, deleted \in SUBSET Sides :
                 /\ storage' = IF removed
                               THEN storage \ {StorageObject(side) : side \in Sides}
                               ELSE storage
                 /\ books' = {row \in books : row.id \notin deleted}
            /\ Thrown(hpc, "Book pair creation failed")
            /\ UNCHANGED <<pairs, trace>>
  /\ UNCHANGED <<libsLoaded, pstate, nvars>>
  /\ UNCHANGED <<request, processed, buckets, parsed>>

\* foreignParsingError || null
ErrorOrNull(outcome) == IF outcome.state = "threw" /\ outcome.error # "" THEN outcome.error ELSE "null"

\* the success response, lines 4359-4386
Respond ==
  /\ hpc = "respond"
  /\ response' = [status |-> 200, success |-> TRUE, error |-> "",
                  foreignParsed |-> parsed["foreign"].state = "ok",
                  nativeParsed |-> parsed["native"].state = "ok",
                  foreignError |-> ErrorOrNull(parsed["foreign"]),
                  nativeError |-> ErrorOrNull(parsed["native"])]
  /\ hpc' = "done"
  /\ trace' = Append(trace, "respond")
  /\ UNCHANGED <<libsLoaded, pstate, nvars>>
  /\ UNCHANGED <<request, processed, storage, buckets, parsed, books, pairs, failed>>

\* no parse is running
ParserIdle ==
  /\ epub = Archive(TRUE, {}, <<OpfPath>>, TRUE, PlainMeta, <<>>, TwoChapterSpine, NoNav(4), <<>>)
  /\ pc = "start"
  /\ packageData = NoPackage
  /\ tableOfContents = <<>>
  /\ tocMapping = <<>>
  /\ anchorsByFile = <<>>
  /\ fileIdx = 0
  /\ fileItem = NoItem
  /\ anchorIdx = 0
  /\ spineIdx = 0
  /\ chapters = <<>>
  /\ totalWordCount = 0
  /\ chapterNumber = 1
  /\ warnings = <<>>
  /\ resources = NoResources
  /\ resIdx = 0
  /\ doc = NoDoc

HandlerInit ==
  /\ libsLoaded \in {0, 4}
  /\ ParserIdle
  /\ NormalizerIdle
  /\ hpc = "validate"
  /\ request \in Requests
  /\ processed = {}
  /\ storage = {}
  /\ buckets \in [BucketNames -> {"absent", "present"}]
  /\ parsed = [side \in Sides |-> NoOutcome]
  /\ books = {}
  /\ pairs = {}
  /\ response = NoResponse
  /\ failed = "none"
  /\ trace = <<>>

HandlerNext ==
  \/ Validate
  \/ \E side \in Sides : Unpack(side)
  \/ \E side \in Sides : Upload(side)
  \/ \E side \in Sides : Parse(side)
  \/ \E side \in Sides : InsertBook(side)
  \/ InsertPair
  \/ Respond

HandlerSpec == HandlerInit /\ [][HandlerNext]_vars

HandlerTypeOK ==
  /\ hpc \in Range(Steps) \cup {"done"}
  /\ (hpc = "done") = (response.status # 0)
  /\ storage \subseteq {StorageObject(side) : side \in Sides}
  /\ buckets \in [BucketNames -> {"absent", "present", "created", "updated"}]

-----------------------------------------------------------------------------
(***************************************************************************)
(* Content Normalizer on markup, lines 2735-2961.  A section of markup is  *)
(* a sequence of tokens separated by white space: an opening tag with the  *)
(* word its attribute list contains ("" for a bare tag), a closing tag, a  *)
(* piece of text, or an entity reference &name;.  The attr field of an     *)
(* entity is "amp" when the reference was written &amp;name; in the input  *)
(* and &amp; has been replaced.  One behaviour of NormalizerSpec is one    *)
(* section put through extractTextFromHtml and extractFormattedHtml, as    *)
(* the chapter builders do at lines 3413-3414, 3430-3431 and 3508-3509.    *)
(***************************************************************************)
Open(name, attr) == [kind |-> "open", name |-> name, attr |-> attr]

Close(name) == [kind |-> "close", name |-> name, attr |-> ""]

Chars(word) == [kind |-> "text", name |-> word, attr |-> ""]

Ent(name) == [kind |-> "entity", name |-> name, attr |-> ""]

IsTag(t) == t.kind \in {"open", "close"}

\* the sentence matched by /Produced by[^.]*\./ (line 2959), as one token
Boilerplate == Chars("Produced by Anna.")

\* text that reads as the rest of an entity reference when it follows "&"
EntityTail(name) == Chars(name \o ";")

SplitEntities == {"eacute", "lt"}

\* the pieces of markup a section of the model is made of
Fragments ==
  { <<Chars("see")>>,
    <<Boilerplate>>,
    <<Open("p", "class"), Chars("note"), Close("p")>>,
    <<Open("b", ""), Chars("see"), Close("b")>>,
    <<Open("i", "class"), Chars("see"), Close("i")>>,
    <<Open("u", "class"), Chars("see"), Close("u")>>,
    <<Open("strong", ""), Chars("see"), Close("strong")>>,
    <<Open("strong", "class"), Chars("see"), Close("strong")>>,
    <<Open("em", "class"), Chars("note"), Close("em")>>,
    <<Open("a", "href"), Chars("note"), Close("a")>>,
    <<Open("a", "href"), Open("em", ""), Chars("note"), Close("em"), Close("a")>>,
    <<Open("span", "id"), Chars("note"), Close("span")>>,
    <<Open("span", "class"), Chars("see"), Close("span")>>,
    <<Open("div", "class"), Chars("see"), Close("div")>>,
    <<Open("script", ""), Chars("code"), Close("script")>>,
    <<Open("img", "src")>>,
    <<Open("br", "")>>,
    <<Open("font", "size7"), Chars("see"), Close("font")>>,
    <<Open("font", "color"), Chars("see"), Close("font")>>,
    <<Ent("eacute")>>, <<Ent("rsquo")>>, <<Ent("hellip")>>, <<Ent("uuml")>>,
    <<Ent("copy")>>, <<Ent("#233")>>, <<Ent("#xE9")>>, <<Ent("amp")>>,
    <<Ent("lt")>>, <<Ent("gt")>>,
    <<Ent("amp"), EntityTail("eacute")>>,
    <<Ent("amp"), EntityTail("lt")>> }

RECURSIVE Sections(_)
Sections(n) ==
  IF n = 0 THEN {<<>>}
  ELSE Sections(n - 1) \cup {s \o f : s \in Sections(n - 1), f \in Fragments}

\* the character an entity reference stands for
CharOf(name) ==
  CASE name \in {"eacute", "#233", "#xE9"} -> "U+00E9"
    [] name = "rsquo" -> "U+0027"
    [] name = "hellip" -> "U+2026"
    [] name = "uuml" -> "U+00FC"
    [] name = "copy" -> "U+00A9"
    [] name = "amp" -> "&"
    [] name = "lt" -> "<"
    [] name = "gt" -> ">"

DecimalRefs == {"#233"}

HexRefs == {"#xE9"}

\* the references one .replace() of the decoding chains rewrites
RuleMatches(rule, name) ==
  CASE rule = "decimal" -> name \in DecimalRefs
    [] rule = "hex" -> name \in HexRefs
    [] OTHER -> name = rule

\* .replace(/&amp;/g, '&'): the "&" joins the text after it
RECURSIVE ReplaceAmp(_)
ReplaceAmp(s) ==
  IF s = <<>> THEN <<>>
  ELSE IF Head(s).kind = "entity" /\ Head(s).name = "amp"
       THEN IF Len(s) > 1 /\ \E e \in SplitEntities : s[2] = EntityTail(e)
            THEN <<[kind |-> "entity",
                    name |-> CHOOSE e \in SplitEntities : s[2] = EntityTail(e),
                    attr |-> "amp"]>> \o ReplaceAmp(SubSeq(s, 3, Len(s)))
            ELSE <<Chars("&")>> \o ReplaceAmp(Tail(s))
       ELSE <<Head(s)>> \o ReplaceAmp(Tail(s))

\* one .replace() of a decoding chain
Replace(s, rule) ==
  IF rule = "amp" THEN ReplaceAmp(s)
  ELSE [i \in 1..Len(s) |->
          IF s[i].kind = "entity" /\ RuleMatches(rule, s[i].name)
          THEN Chars(CharOf(s[i].name)) ELSE s[i]]

\* a chain of .replace() calls, in the order written
RECURSIVE ReplaceAll(_, _)
ReplaceAll(s, rules) ==
  IF rules = <<>> THEN s ELSE ReplaceAll(Replace(s, Head(rules)), Tail(rules))

\* a reference &amp;name; whose "&" was decoded reads "&" then "name;"
RECURSIVE Spell(_)
Spell(s) ==
  IF s = <<>> THEN <<>>
  ELSE IF Head(s).kind = "entity" /\ Head(s).attr = "amp"
       THEN <<Chars("&"), EntityTail(Head(s).name)>> \o Spell(Tail(s))
       ELSE <<Head(s)>> \o Spell(Tail(s))

\* index of the first token of s at or after i that satisfies Is, or 0
FirstFrom(s, i, Hits) ==
  IF \E j \in i..Len(s) : j \in Hits
  THEN CHOOSE j \in i..Len(s) : j \in Hits /\ \A k \in i..(j - 1) : k \notin Hits
  ELSE 0

Closings(s, name) == {j \in 1..Len(s) : s[j] = Close(name)}

TagPositions(s) == {j \in 1..Len(s) : IsTag(s[j])}

\* .replace(/<name[^>]*>.*?<\/name>/gis, ''): an element goes with its content
RECURSIVE RemoveElement(_, _)
RemoveElement(s, name) ==
  IF s = <<>> THEN <<>>
  ELSE LET end == FirstFrom(s, 2, Closings(s, name))
       IN IF Head(s).kind = "open" /\ Head(s).name = name /\ end # 0
          THEN RemoveElement(SubSeq(s, end + 1, Len(s)), name)
          ELSE <<Head(s)>> \o RemoveElement(Tail(s), name)

\* .replace(/<name[^>]*word[^>]*>.*?<\/name>/gi, ''), line 2826
RECURSIVE RemoveMarked(_, _, _)
RemoveMarked(s, name, word) ==
  IF s = <<>> THEN <<>>
  ELSE LET end == FirstFrom(s, 2, Closings(s, name))
       IN IF Head(s) = Open(name, word) /\ end # 0
          THEN RemoveMarked(SubSeq(s, end + 1, Len(s)), name, word)
          ELSE <<Head(s)>> \o RemoveMarked(Tail(s), name, word)

\* .replace(/<name[^>]*word[^>]*>[^<]*<\/name>/gi, ''), lines 2871-2872: the
\* element goes with its text when no tag stands between its two tags
RECURSIVE RemoveFlat(_, _, _)
RemoveFlat(s, name, word) ==
  IF s = <<>> THEN <<>>
  ELSE LET next == FirstFrom(s, 2, TagPositions(s))
       IN IF Head(s) = Open(name, word) /\ next # 0 /\ s[next] = Close(name)
          THEN RemoveFlat(SubSeq(s, next + 1, Len(s)), name, word)
          ELSE <<Head(s)>> \o RemoveFlat(Tail(s), name, word)

\* the tags removed one by one at lines 2817-2825 and 2862-2870
StructuralTags == {"html", "body", "meta", "link", "img", "hr"}

RemoveTags(s, names) == SelectSeq(s, LAMBDA t : ~(IsTag(t) /\ t.name \in names))

RenameTags(s, from, to) ==
  [i \in 1..Len(s) |->
     IF IsTag(s[i]) /\ s[i].name = from THEN [kind |-> s[i].kind, name |-> to, attr |-> ""]
     ELSE s[i]]

\* stripProjectGutenbergBoilerplate, lines 2955-2961
stripProjectGutenbergBoilerplate(html) == SelectSeq(html, LAMBDA t : t # Boilerplate)

FallbackEntities ==
  <<"rsquo", "lsquo", "rdquo", "ldquo", "ndash", "mdash", "hellip", "nbsp", "amp", "lt",
    "gt", "quot", "eacute", "egrave", "ecirc", "agrave", "acirc", "ccedil", "decimal", "hex">>

\* processHtmlFallback, lines 2811-2852
processHtmlFallback(html) ==
  LET structural == RemoveElement(RemoveElement(RemoveElement(html, "script"), "style"), "head")
      anchors == RemoveMarked(RemoveTags(structural, StructuralTags), "span", "id")
      untagged == SelectSeq(anchors, LAMBDA t : ~IsTag(t))
  IN Spell(ReplaceAll(untagged, FallbackEntities))

FormattingEntities ==
  <<"rsquo", "lsquo", "rdquo", "ldquo", "ndash", "mdash", "hellip", "nbsp", "eacute",
    "egrave", "ecirc", "agrave", "acirc", "ccedil", "uuml", "ouml", "auml", "decimal", "hex",
    "amp", "lt", "gt", "quot">>

FormattingTags == {"strong", "em", "u", "p"}

\* a token that holds a ">"
HoldsGt(t) == IsTag(t) \/ t = Chars(">")

\* .replace(/<(?!\/?(strong|em|u|p)\b)[^>]*>/gi, ' '), line 2924: from a "<"
\* that does not start a formatting tag up to the next ">"
RECURSIVE RemoveOtherTags(_)
RemoveOtherTags(s) ==
  IF s = <<>> THEN <<>>
  ELSE LET t == Head(s)
           gt == FirstFrom(s, 2, {j \in 1..Len(s) : HoldsGt(s[j])})
       IN IF IsTag(t)
          THEN (IF t.name \in FormattingTags THEN <<t>> ELSE <<>>) \o RemoveOtherTags(Tail(s))
          ELSE IF t = Chars("<") /\ gt # 0
               THEN RemoveOtherTags(SubSeq(s, gt + 1, Len(s)))
               ELSE <<t>> \o RemoveOtherTags(Tail(s))

\* .replace(/<font[^>]*size=[5-9]...>/gi, '<strong>') and the two after it,
\* lines 2914-2917
FontTags(s) ==
  LET large == [i \in 1..Len(s) |->
                  IF s[i] = Open("font", "size7") THEN Open("strong", "")
                  ELSE IF s[i] = Close("font") THEN Close("strong") ELSE s[i]]
  IN SelectSeq(large, LAMBDA t : ~(t.kind = "open" /\ t.name = "font"))

\* one of the clean-up .replace() calls of lines 2939-2943: of two equal
\* tokens next to each other one remains
RECURSIVE Undouble(_, _)
Undouble(s, tag) ==
  IF Len(s) < 2 THEN s
  ELSE IF s[1] = tag /\ s[2] = tag THEN <<tag>> \o Undouble(SubSeq(s, 3, Len(s)), tag)
       ELSE <<Head(s)>> \o Undouble(Tail(s), tag)

\* .replace(/<p>\s*<\/p>/gi, ''), line 2943
RECURSIVE RemoveEmptyParagraphs(_)
RemoveEmptyParagraphs(s) ==
  IF Len(s) < 2 THEN s
  ELSE IF s[1] = Open("p", "") /\ s[2] = Close("p")
       THEN RemoveEmptyParagraphs(SubSeq(s, 3, Len(s)))
       ELSE <<Head(s)>> \o RemoveEmptyParagraphs(Tail(s))

\* preserveBasicFormatting, lines 2855-2952
preserveBasicFormatting(html) ==
  LET step1 == RemoveTags(RemoveFlat(RemoveFlat(
                 RemoveTags(RemoveElement(RemoveElement(RemoveElement(html, "script"),
                                                        "style"), "head"), StructuralTags),
                 "span", "id"), "a", "href"), {"br"})
      step2 == ReplaceAll(step1, FormattingEntities)
      step3 == RenameTags(RenameTags(RenameTags(step2, "b", "strong"), "i", "em"), "u", "u")
      step4 == FontTags(step3)
      step5 == RemoveTags(RenameTags(step4, "p", "p"), {"div", "center"})
      step6 == RemoveOtherTags(step5)
      step7 == IF step6 = <<>> THEN <<>> ELSE <<Open("p", "")>> \o step6 \o <<Close("p")>>
  IN Spell(RemoveEmptyParagraphs(
       Undouble(Undouble(Undouble(Undouble(step7, Close("strong")), Open("strong", "")),
                         Close("em")), Open("em", ""))))

\* extractFormattedHtml, lines 2790-2808
extractFormattedHtml(html) == preserveBasicFormatting(stripProjectGutenbergBoilerplate(html))

\* the html-to-text library loaded at line 2566, as called at lines 2745-2766:
\* the skipped selectors go with their content, every other tag is dropped
\* and every entity reference of HTML is decoded once
htmlToText(html) ==
  LET skipped == RemoveMarked(
                   RemoveTags(RemoveElement(RemoveElement(RemoveElement(html, "script"),
                                                          "style"), "head"),
                              {"meta", "link", "img", "hr"}),
                   "span", "id")
      untagged == SelectSeq(skipped, LAMBDA t : ~IsTag(t))
  IN [i \in 1..Len(untagged) |->
        IF untagged[i].kind = "entity" THEN Chars(CharOf(untagged[i].name)) ELSE untagged[i]]

\* extractTextFromHtml on markup, lines 2735-2787
extractPlainText(html) ==
  LET cleanHtml == stripProjectGutenbergBoilerplate(html)
  IN IF HtmlToTextLoaded THEN htmlToText(cleanHtml) ELSE processHtmlFallback(cleanHtml)

\* const textContent = extractTextFromHtml(sectionHtml), line 3413
ExtractText ==
  /\ npc = "ready"
  /\ plainText' = extractPlainText(rawHtml)
  /\ npc' = "formatted"
  /\ UNCHANGED <<libsLoaded, pstate, hvars, rawHtml, displayHtml>>

\* const formattedContent = extractFormattedHtml(sectionHtml), line 3414
ExtractFormatted ==
  /\ npc = "formatted"
  /\ displayHtml' = extractFormattedHtml(rawHtml)
  /\ npc' = "done"
  /\ UNCHANGED <<libsLoaded, pstate, hvars, rawHtml, plainText>>

NormalizerInit ==
  /\ libsLoaded \in {2, 4}
  /\ ParserIdle
  /\ HandlerIdle
  /\ npc = "ready"
  /\ rawHtml \in Sections(MaxFragments)
  /\ plainText = <<>>
  /\ displayHtml = <<>>

NormalizerNext == ExtractText \/ ExtractFormatted

NormalizerSpec == NormalizerInit /\ [][NormalizerNext]_vars

-----------------------------------------------------------------------------
(* Properties of parseEpubContent *)

Returned == doc.returned

\* the archive was extracted and its container names a package document
\* that is in the archive
ValidContainerAndPackage ==
  /\ FflateLoaded /\ epub.zipOk
  /\ ContainerPath \in epub.files
  /\ epub.rootfile # <<>>
  /\ epub.rootfile[1] \in epub.files

\* C1: an archive whose file map has no META-INF/container.xml never gets
\* past the container step: the parse ends in the fatal error and no
\* document is returned.
C1_MissingContainerIsFatal ==
  ContainerPath \notin epub.files => pc \in {"start", "container", "fatal"} /\ ~Returned

\* the archive was extracted, the container was looked up, and the parse failed
C1_Witness ==
  /\ FflateLoaded /\ epub.zipOk /\ ContainerPath \notin epub.files
  /\ epub.rootfile # <<>> /\ epub.rootfile[1] \in epub.files
  /\ pc = "fatal"

\* C2: in a returned document the chapter at zero-based index i has order i,
\* whatever strategy produced the chapters and whatever was skipped.
C2_OrderIsIndex ==
  Returned => \A i \in 1..Len(doc.chapters) : doc.chapters[i].order = i - 1

\* anchor-driven chapters, more than one, with a table-of-contents entry
\* that yielded no chapter
C2_Witness ==
  /\ Returned
  /\ Len(doc.chapters) >= 2
  /\ \A i \in 1..Len(doc.chapters) : doc.chapters[i].strategy = "anchor"
  /\ Len(doc.structure.tableOfContents) > Len(doc.chapters)

\* C3: in a returned document structure.wordCount is the sum of the word
\* counts of the returned chapters and structure.totalChapters is their number.
C3_WordCountIsSum ==
  Returned =>
    /\ doc.structure.wordCount =
         SumSeq([i \in 1..Len(doc.chapters) |-> doc.chapters[i].wordCount])
    /\ doc.structure.totalChapters = Len(doc.chapters)

\* spine-driven chapters, more than one, with a spine item that yielded none
C3_Witness ==
  /\ Returned
  /\ Len(doc.chapters) >= 2
  /\ \A i \in 1..Len(doc.chapters) : doc.chapters[i].strategy = "spine"
  /\ Len(doc.structure.spine) > Len(doc.chapters)
  /\ doc.structure.wordCount > doc.chapters[Len(doc.chapters)].wordCount

\* C4: no chapter of a returned document has a plain text of fewer than
\* 20 words.
C4_NoShortChapter ==
  Returned => \A i \in 1..Len(doc.chapters) : doc.chapters[i].textContent.n >= 20

\* a document with chapters whose spine names a file of fewer than 20 words
\* that is in the archive
C4_Witness ==
  /\ Returned
  /\ doc.chapters # <<>>
  /\ doc.chapters[1].strategy = "spine"
  /\ \E k \in 1..Len(doc.structure.spine) :
       /\ doc.structure.spine[k].id = "tiny"
       /\ DocPath("tiny.xhtml") \in epub.files
       /\ Docs["tiny.xhtml"].nodes[1].text.n < 20

\* C5: a chapter title that was taken from a table-of-contents entry never
\* satisfies isFrontMatterTitle.
C5_NoFrontMatterTocTitle ==
  Returned =>
    \A i \in 1..Len(doc.chapters) :
      doc.chapters[i].titleFrom = "toc" => ~isFrontMatterTitle(doc.chapters[i].title)

\* a spine-driven chapter whose file is mapped to a table-of-contents entry
\* with a front-matter title, and whose title was extracted instead
C5_Witness ==
  /\ Returned
  /\ \E i \in 1..Len(doc.chapters) :
       LET entry == TocLookup(FilePart(doc.chapters[i].href))
       IN /\ doc.chapters[i].strategy = "spine"
          /\ entry # <<>>
          /\ isFrontMatterTitle(entry[1].title)
          /\ doc.chapters[i].titleFrom = "extracted"

\* text of the first element of the tag that the fallback pattern
\* <tag[^>]*>([^<]+)</tag> matches, trimmed; <<>> if it matches none
RegexRecoverable(tag) ==
  LET plain == SelectSeq(epub.opf.meta, LAMBDA e : e.tag = tag /\ ~e.markup)
  IN IF plain = <<>> THEN <<>> ELSE Trim(plain[1].text)

MalformedRecoverablePackage ==
  /\ ValidContainerAndPackage
  /\ XmlParserLoaded /\ ~epub.opf.wellFormed
  /\ RegexRecoverable("dc:title") # <<>>
  /\ RegexRecoverable("dc:creator") # <<>>

\* C6: when the package document is malformed but holds a dc:title and a
\* dc:creator the fallback pattern recovers, the package step does not fail
\* and the metadata, in the package data and in the returned document, are
\* the recovered values, not the defaults.
C6_RegexFallbackMetadata ==
  MalformedRecoverablePackage /\ pc \notin {"start", "container", "package"} =>
    /\ packageData.metadata.title = RegexRecoverable("dc:title")
    /\ packageData.metadata.creator = RegexRecoverable("dc:creator")
    /\ Returned =>
         /\ doc.metadata.title = RegexRecoverable("dc:title")
         /\ doc.metadata.author = RegexRecoverable("dc:creator")
         /\ doc.metadata.title # UnknownTitle
         /\ doc.metadata.author # UnknownAuthor

\* a document returned for a malformed package that also holds un-prefixed
\* elements
C6_Witness ==
  /\ MalformedRecoverablePackage
  /\ Returned
  /\ \E i \in 1..Len(epub.opf.meta) : epub.opf.meta[i].tag \in {"title", "creator"}

\* neither a navigation document nor an NCX, listed or stored
NoNavigation ==
  /\ \A i \in 1..Len(epub.opf.manifest) :
       /\ "nav" \notin Range(epub.opf.manifest[i].properties)
       /\ epub.opf.manifest[i].mediaType # NcxType
       /\ epub.opf.manifest[i].href.path \notin {<<"nav.xhtml">>, <<"toc.ncx">>}
  /\ NavPath \notin epub.files
  /\ NcxPath \notin epub.files

\* index in the manifest of the item a spine entry refers to, 0 if none
ManifestIndexOf(idref) ==
  LET hits == SelectIdx(Len(epub.opf.manifest), LAMBDA i : epub.opf.manifest[i].id = idref)
  IN IF hits = <<>> THEN 0 ELSE hits[1]

\* the href names a file of the archive, next to the package document; an
\* href the XML parser hands over as a number names none
FileExists(item) ==
  /\ ~(item.href.num /\ PackageParsesStructured(epub.opf))
  /\ <<"OEBPS">> \o item.href.path \in epub.files

WholeFileText(item) ==
  LET d == DocAt(<<"OEBPS">> \o item.href.path)
  IN extractTextFromHtml(d, AllPieces(d))

\* spine positions whose manifest item and file exist and whose content is
\* not front matter
ExpectedSpineChapters ==
  SelectIdx(Len(epub.opf.spine),
    LAMBDA k :
      LET mi == ManifestIndexOf(epub.opf.spine[k].idref)
      IN /\ mi # 0
         /\ FileExists(epub.opf.manifest[mi])
         /\ ~isFrontMatterPage(WholeFileText(epub.opf.manifest[mi]),
                               WholeFileText(epub.opf.manifest[mi]).n,
                               epub.opf.manifest[mi]))

C8_NonLinearNeverChapter ==
  Returned =>
    \A i \in 1..Len(doc.chapters) :
      ~ /\ \E k \in 1..Len(epub.opf.spine) :
             epub.opf.spine[k].idref = doc.chapters[i].id[1]
        /\ \A k \in 1..Len(epub.opf.spine) :
             epub.opf.spine[k].idref = doc.chapters[i].id[1]
               => epub.opf.spine[k].linear = "no"

\* manifest positions of the images that are in the archive and look like a cover
CoverMatches ==
  SelectIdx(Len(epub.opf.manifest),
    LAMBDA i : /\ IsImageType(epub.opf.manifest[i].mediaType)
               /\ <<"OEBPS">> \o epub.opf.manifest[i].href.path \in epub.files
               /\ LooksLikeCover(epub.opf.manifest[i]))

\* C9: the cover of a returned document is the one the first matching image
\* of the manifest gives; later matches do not change it.
C9_FirstCoverMatchWins ==
  Returned /\ CoverMatches # <<>> =>
    LET first == epub.opf.manifest[CoverMatches[1]]
        name == first.href.path[Len(first.href.path)]
    IN doc.resources.coverImage =
         IF ImageSize(name) < EmbedLimit THEN <<"data:", first.mediaType, ";base64,", name>>
         ELSE UndefSeq

\* 'data:<mediaType>;base64,<payload>'
IsDataUri(x) ==
  /\ Len(x) = 4
  /\ x[1] = "data:"
  /\ IsImageType(x[2])
  /\ x[3] = ";base64,"

\* C10: the cover of a returned document is absent or a data URI, never a path.
C10_CoverIsDataUri ==
  Returned =>
    \/ doc.resources.coverImage = UndefSeq
    \/ IsDataUri(doc.resources.coverImage)

\* a returned document with a cover
C10_Witness ==
  /\ Returned
  /\ doc.resources.coverImage # UndefSeq
  /\ doc.resources.images # <<>>

\* a table-of-contents anchor names a file that is not in the archive
AnchorFileMissing ==
  \E i \in 1..Len(doc.structure.tableOfContents) :
    LET h == doc.structure.tableOfContents[i].href
    IN h.hash /\ h.frag # "" /\ <<"OEBPS">> \o h.path \notin epub.files

\* C11: a section whose file is missing is a non-fatal failure, so the
\* returned document carries a diagnostic for it.
C11_FailuresAreRecorded ==
  Returned /\ AnchorFileMissing => doc.parsing.warnings # <<>>

\* the large images of the manifest that are in the archive
LargeImages ==
  { i \in 1..Len(epub.opf.manifest) :
      /\ IsImageType(epub.opf.manifest[i].mediaType)
      /\ <<"OEBPS">> \o epub.opf.manifest[i].href.path \in epub.files
      /\ ImageSize(epub.opf.manifest[i].href.path[Len(epub.opf.manifest[i].href.path)])
           >= EmbedLimit }

\* the small images of the manifest that are in the archive: their
\* extraction cannot throw
SmallImages ==
  { i \in 1..Len(epub.opf.manifest) :
      /\ IsImageType(epub.opf.manifest[i].mediaType)
      /\ <<"OEBPS">> \o epub.opf.manifest[i].href.path \in epub.files
      /\ ImageSize(epub.opf.manifest[i].href.path[Len(epub.opf.manifest[i].href.path)])
           < EmbedLimit }

RecordedImage(res, i) ==
  \E k \in 1..Len(res.images) : res.images[k].id = epub.opf.manifest[i].id

\* C12: whatever resource threw, once the resource pass is over every
\* extractable image and stylesheet of the manifest is recorded, before and
\* after the failing item, and the parse goes on to return its document.
C12_ResourceFailureIsolated ==
  /\ pc \in {"assemble", "done"} =>
       /\ \A i \in SmallImages : RecordedImage(resources, i)
       /\ \A i \in 1..Len(epub.opf.manifest) :
            /\ epub.opf.manifest[i].mediaType = "text/css"
            /\ <<"OEBPS">> \o epub.opf.manifest[i].href.path \in epub.files
            => epub.opf.manifest[i].href.path \in Range(resources.stylesheets)
  /\ pc = "done" => doc.resources = resources
  /\ pc = "fatal" => resIdx = 0

\* a returned document whose manifest has a large image that threw (it is
\* not recorded) between two recorded images
C12_Witness ==
  /\ Returned
  /\ \E i \in SmallImages, j \in LargeImages, k \in SmallImages :
       /\ i < j /\ j < k
       /\ ~RecordedImage(doc.resources, j)
       /\ RecordedImage(doc.resources, i)
       /\ RecordedImage(doc.resources, k)

\* C16: the table of contents of a returned document is the one any other
\* invocation on the same archive computes, whatever Math.random draws.
C16_SameArchiveSameToc ==
  Returned =>
    \A rnd \in RandomDraws(epub.ncx) : doc.structure.tableOfContents = Navigation(rnd).toc

\* the idrefs of the spine that name no manifest item
UnresolvedIdrefs ==
  {packageData.spine[i].idref : i \in {j \in 1..Len(packageData.spine) :
     \A k \in 1..Len(packageData.manifest) :
        packageData.manifest[k].id # packageData.spine[j].idref}}

\* C19: an itemref whose idref names no manifest item is dropped with a
\* warning, whichever strategy built the chapters: no chapter comes from it,
\* the returned structure.spine does not list it, and parsing.warnings holds
\* a warning that names it.
C19_UnresolvedItemrefDropped ==
  Returned =>
    \A idref \in UnresolvedIdrefs :
      /\ \A i \in 1..Len(doc.chapters) : doc.chapters[i].id # <<idref>>
      /\ \A i \in 1..Len(doc.structure.spine) : doc.structure.spine[i].id # idref
      /\ \E i \in 1..Len(doc.parsing.warnings) :
           doc.parsing.warnings[i] = <<"Spine item not found in manifest", idref>>

\* C19 for the warning alone, in the spine-driven strategy
C19_FallbackWarns ==
  Returned /\ (\A i \in 1..Len(doc.chapters) : doc.chapters[i].strategy = "spine")
           /\ tableOfContents = <<>> =>
    \A idref \in UnresolvedIdrefs :
      \E i \in 1..Len(doc.parsing.warnings) :
        doc.parsing.warnings[i] = <<"Spine item not found in manifest", idref>>

\* C19 for the warning alone, in the anchor-driven strategy
C19_AnchorWarns ==
  Returned /\ (\E i \in 1..Len(doc.chapters) : doc.chapters[i].strategy = "anchor") =>
    \A idref \in UnresolvedIdrefs :
      \E i \in 1..Len(doc.parsing.warnings) :
        doc.parsing.warnings[i] = <<"Spine item not found in manifest", idref>>

\* C20: the two strategies are exclusive and ordered.  The spine-driven pass
\* is entered only once the anchor-driven pass is over (there was no table of
\* contents, or every group of anchors has been gone through) and only with
\* no chapter built; at every moment, and in the returned document, the
\* chapters all come from the same strategy, so once an anchor-driven chapter
\* exists no spine-driven chapter is added.
C20_StrategiesExclusive ==
  /\ pc = "spine" =>
       /\ tableOfContents = <<>> \/ fileIdx > Len(anchorsByFile)
       /\ \A i \in 1..Len(chapters) : chapters[i].strategy = "spine"
  /\ \A i, j \in 1..Len(chapters) : chapters[i].strategy = chapters[j].strategy
  /\ Returned =>
       \A i, j \in 1..Len(doc.chapters) : doc.chapters[i].strategy = doc.chapters[j].strategy

\* a document whose table of contents gave groups of anchors but no chapter,
\* and whose chapters then came from the spine
C20_Witness ==
  /\ Returned
  /\ anchorsByFile # <<>>
  /\ doc.chapters # <<>>
  /\ \A i \in 1..Len(doc.chapters) : doc.chapters[i].strategy = "spine"

\* a document with a spine of two readable files whose chapters came from
\* anchors only
C20_AnchorOnly ==
  /\ Returned
  /\ Len(doc.chapters) >= 2
  /\ \A i \in 1..Len(doc.chapters) : doc.chapters[i].strategy = "anchor"

\* the manifest item an anchor-driven chapter was cut from
ItemOfChapter(ch) ==
  packageData.manifest[FirstIndex(packageData.manifest, LAMBDA it : it.id = ch.id[1])]

\* the text of the section of the j-th anchor of a group of anchors
SectionText(g, j) ==
  LET item == packageData.manifest[FirstIndex(packageData.manifest,
                                              LAMBDA it : ~it.href.num /\ it.href = g.file)]
      d == DocAt(FileOf(item))
  IN extractTextFromHtml(d, sliceSection(d, g.anchors[j].anchor,
                                         {g.anchors[k].anchor : k \in (j + 1)..Len(g.anchors)}))

\* the group names a manifest item whose file is in the archive
GroupOpens(g) ==
  \E k \in 1..Len(packageData.manifest) :
     /\ ~packageData.manifest[k].href.num
     /\ packageData.manifest[k].href = g.file
     /\ FileOf(packageData.manifest[FirstIndex(packageData.manifest,
                  LAMBDA it : ~it.href.num /\ it.href = g.file)]) \in epub.files

AnchorChapters == \A i \in 1..Len(chapters) : chapters[i].strategy = "anchor"

\* C21: in the anchor-driven strategy every chapter pushed has at least 50
\* words and is not front matter, and a dropped section leaves no trace: the
\* running word count is the sum over the chapters pushed, and the order
\* indexes are 0, 1, 2, ... without a gap.
C21_AnchorSectionsFiltered ==
  AnchorChapters =>
    /\ \A i \in 1..Len(chapters) :
         /\ chapters[i].wordCount >= 50
         /\ ~isFrontMatterPage(chapters[i].textContent, chapters[i].wordCount,
                               ItemOfChapter(chapters[i]))
         /\ ~isFrontMatterTitle(chapters[i].title)
         /\ chapters[i].order = i - 1
    /\ totalWordCount = SumSeq([i \in 1..Len(chapters) |-> chapters[i].wordCount])
    /\ chapterNumber = Len(chapters) + 1
    /\ Returned => doc.structure.wordCount = totalWordCount /\ doc.chapters = chapters

\* a returned document with anchor-driven chapters, one of whose groups of
\* anchors held a section of 20 to 49 words before a section that was kept
C21_Witness ==
  /\ Returned
  /\ doc.chapters # <<>>
  /\ AnchorChapters
  /\ \E g \in 1..Len(anchorsByFile) :
       /\ GroupOpens(anchorsByFile[g])
       /\ \E j \in 1..Len(anchorsByFile[g].anchors) :
            /\ SectionText(anchorsByFile[g], j).n \in 20..49
            /\ \E k \in (j + 1)..Len(anchorsByFile[g].anchors) :
                 \E c \in 1..Len(doc.chapters) :
                    doc.chapters[c].href = anchorsByFile[g].anchors[k].href

\* the section of the j-th anchor of a group passes the classifier and the
\* 50-word minimum
SectionKept(g, j) ==
  LET item == packageData.manifest[FirstIndex(packageData.manifest,
                                              LAMBDA it : ~it.href.num /\ it.href = g.file)]
      text == SectionText(g, j)
  IN /\ ~isFrontMatterPage(text, text.n, item)
     /\ ~isFrontMatterTitle(g.anchors[j].title)
     /\ text.n >= 50

\* the anchor-bearing entries of the table of contents, as <<group, index>>,
\* whose file is in the manifest and the archive and whose section is kept
KeptAnchors ==
  {p \in {<<g, j>> : g \in 1..Len(anchorsByFile), j \in 1..(MaxToc + 3)} :
     /\ p[2] <= Len(anchorsByFile[p[1]].anchors)
     /\ GroupOpens(anchorsByFile[p[1]])
     /\ SectionKept(anchorsByFile[p[1]], p[2])}

C22_Nested ==
  /\ Returned
  /\ AnchorChapters
  /\ \E i \in 1..Len(doc.chapters) : doc.chapters[i].level = 2
  /\ Len(doc.chapters) < Len(tableOfContents)

\* the slicer has no element to start from: no parser, no valid selector,
\* or no element with the id
Unlocatable(d, anchor) ==
  ~NodeHtmlParserLoaded \/ anchor \in InvalidSelectors \/ FindAnchor(d, anchor) = 0

\* C23: sliceSection never raises, and when the anchor cannot be located
\* (no element has the id, the structural parser is unavailable or throws) it
\* returns the whole input: the parse is never fatal once the anchor pass has
\* begun, and every entry of an open group whose anchor cannot be located,
\* whose title is not front matter and whose file passes the classifier has
\* a chapter whose section is the whole file.
C23_SliceFallsBackToWholeFile ==
  /\ pc = "fatal" => fileIdx = 0
  /\ Returned =>
       \A g \in 1..Len(anchorsByFile) : \A j \in 1..Len(anchorsByFile[g].anchors) :
         LET group == anchorsByFile[g]
             item == packageData.manifest[FirstIndex(packageData.manifest,
                                            LAMBDA it : ~it.href.num /\ it.href = group.file)]
             d == DocAt(FileOf(item))
             whole == extractTextFromHtml(d, AllPieces(d))
         IN /\ GroupOpens(group)
            /\ Unlocatable(d, group.anchors[j].anchor)
            /\ ~isFrontMatterTitle(group.anchors[j].title)
            /\ ~isFrontMatterPage(whole, whole.n, item)
            /\ whole.n >= 50
            => \E c \in 1..Len(doc.chapters) :
                  /\ doc.chapters[c].href = group.anchors[j].href
                  /\ doc.chapters[c].section = AllPieces(d)
                  /\ doc.chapters[c].wordCount = whole.n

\* a returned document, parsed with the structural parser, with a chapter
\* for an anchor that no element bears and whose selector is valid
C23_Witness ==
  /\ Returned
  /\ NodeHtmlParserLoaded
  /\ \E c \in 1..Len(doc.chapters) :
       /\ doc.chapters[c].strategy = "anchor"
       /\ doc.chapters[c].href.frag \notin InvalidSelectors
       /\ FindAnchor(Docs["ch1.xhtml"], doc.chapters[c].href.frag) = 0
       /\ doc.chapters[c].href.path = <<"ch1.xhtml">>
       /\ doc.chapters[c].section = AllPieces(Docs["ch1.xhtml"])

\* the same for an anchor whose selector makes querySelector throw
C23_SelectorThrew ==
  /\ Returned
  /\ NodeHtmlParserLoaded
  /\ \E c \in 1..Len(doc.chapters) :
       /\ doc.chapters[c].href.frag \in InvalidSelectors
       /\ doc.chapters[c].section = AllPieces(Docs["ch1.xhtml"])

\* the anchors of a group are pairwise different
DistinctAnchors(group) ==
  \A j, k \in 1..Len(group.anchors) :
     group.anchors[j].anchor = group.anchors[k].anchor => j = k

\* the ids of the pieces of a section
IdsIn(d, section) == {PieceId(d, section[i]) : i \in 1..Len(section)} \ {""}

\* C24: for an anchor that is located, the section is the anchor element
\* followed by its following siblings up to, and without, the first sibling
\* that bears or contains the id of the next anchor of the file (or up to the
\* end of the siblings); the element bearing the next anchor's id is never
\* part of the section.
C24_SliceStopsAtNextAnchor ==
  Returned =>
    \A g \in 1..Len(anchorsByFile) : \A j \in 1..Len(anchorsByFile[g].anchors) :
      \A c \in 1..Len(doc.chapters) :
        LET group == anchorsByFile[g]
            item == packageData.manifest[FirstIndex(packageData.manifest,
                                           LAMBDA it : ~it.href.num /\ it.href = group.file)]
            d == DocAt(FileOf(item))
            next == IF j < Len(group.anchors) THEN {group.anchors[j + 1].anchor} ELSE {}
        IN /\ doc.chapters[c].strategy = "anchor"
           /\ doc.chapters[c].href = group.anchors[j].href
           /\ DistinctAnchors(group)
           /\ ~Unlocatable(d, group.anchors[j].anchor)
           => /\ IdsIn(d, doc.chapters[c].section) \cap next = {}
              /\ doc.chapters[c].section = sliceSection(d, group.anchors[j].anchor, next)

\* C24 without the case of a next anchor inside the anchor element itself
\* and with the stop at any later anchor of the file
C24_StopsAtLaterSibling ==
  Returned =>
    \A g \in 1..Len(anchorsByFile) : \A j \in 1..Len(anchorsByFile[g].anchors) :
      \A c \in 1..Len(doc.chapters) :
        LET group == anchorsByFile[g]
            item == packageData.manifest[FirstIndex(packageData.manifest,
                                           LAMBDA it : ~it.href.num /\ it.href = group.file)]
            d == DocAt(FileOf(item))
            later == {group.anchors[k].anchor : k \in (j + 1)..Len(group.anchors)}
            first == AllPieces(d)[FindAnchor(d, group.anchors[j].anchor)]
            inside == IF first[2] = 0 THEN IdsIn(d, NodePieces(d, first[1])) ELSE {}
        IN /\ doc.chapters[c].strategy = "anchor"
           /\ doc.chapters[c].href = group.anchors[j].href
           /\ DistinctAnchors(group)
           /\ ~Unlocatable(d, group.anchors[j].anchor)
           => IdsIn(d, doc.chapters[c].section) \cap (later \ inside) = {}

\* the title the stated priority order gives a chapter made of the whole
\* file of a manifest item
TitleByPriority(item) ==
  LET d == DocAt(FileOf(item))
      tocEntry == TocLookup(FilePart(item.href))
  IN IF tocEntry # <<>> /\ tocEntry[1].title # <<>> /\ ~isFrontMatterTitle(tocEntry[1].title)
     THEN tocEntry[1].title
     ELSE IF d.heading.tag \in {"h1", "h2", "h3", "title"} /\ d.heading.text # <<>>
     THEN d.heading.text
     ELSE IF d.sentence > 5 /\ d.sentence < 100 THEN FirstSentenceTitle
     ELSE PlaceholderTitle(item.id)

\* C25: a spine-driven chapter has the title of the entry of the table of
\* contents indexed under its href if there is one and it is not a
\* front-matter title; otherwise the text of the first h1, h2, h3 or title
\* element of the markup; otherwise the first sentence of the plain text if
\* it is between 5 and 100 characters long; otherwise the placeholder made
\* from the manifest id.
C25_TitlePriority ==
  Returned =>
    \A i \in 1..Len(doc.chapters) :
      doc.chapters[i].strategy = "spine" =>
        doc.chapters[i].title = TitleByPriority(ItemOfChapter(doc.chapters[i]))

\* C25 for the files whose markup has no paragraph of class title and no
\* heading that reads as a number
C25_PriorityOnPlainHeadings ==
  Returned =>
    \A i \in 1..Len(doc.chapters) :
      LET item == ItemOfChapter(doc.chapters[i])
          h == DocAt(FileOf(item)).heading
      IN doc.chapters[i].strategy = "spine" /\ h.tag # "p.title" /\ ~ParsedAsNumber(h.text)
           => doc.chapters[i].title = TitleByPriority(item)

\* chapters titled by the first sentence and by the placeholder
C25_LowerSourcesUsed ==
  /\ Returned
  /\ \E i \in 1..Len(doc.chapters) : doc.chapters[i].title = FirstSentenceTitle
  /\ \E i \in 1..Len(doc.chapters) : doc.chapters[i].title = PlaceholderTitle("long")

PastNavigation ==
  pc \in {"anchors", "anchorFile", "anchor", "spine", "resources", "assemble", "done"}
    \/ (pc = "fatal" /\ fileIdx # 0)

\* what the navigation document of the archive yields: nothing if the
\* manifest lists none or its file is missing
NavDocumentToc ==
  IF \E k \in 1..Len(packageData.manifest) :
        packageData.manifest[k].id = "nav" /\ NavPath \in epub.files
  THEN parseNavigationDocumentFast(epub.nav) ELSE <<>>

\* what the NCX document of the archive can yield
NcxDocumentTocs ==
  IF \E k \in 1..Len(packageData.manifest) :
        packageData.manifest[k].id = "ncx" /\ NcxPath \in epub.files
  THEN {parseNCXDocument(epub.ncx, rnd) : rnd \in RandomDraws(epub.ncx)} ELSE {<<>>}

C26_ReturnedAfterThrow ==
  /\ Returned
  /\ tableOfContents = <<>>
  /\ \E i \in 1..Len(doc.parsing.warnings) :
       doc.parsing.warnings[i] = <<"Failed to parse navigation">>
  /\ doc.chapters # <<>>

\* a returned document whose table of contents came from the NCX
C26_NcxUsed ==
  /\ Returned
  /\ NavDocumentToc = <<>>
  /\ tableOfContents # <<>>

\* C27: the chapter ids of a returned document are pairwise different, also
\* when the table of contents lists a file#anchor twice or the spine names a
\* manifest item twice.
C27_ChapterIdsDistinct ==
  Returned =>
    \A i, j \in 1..Len(doc.chapters) : doc.chapters[i].id = doc.chapters[j].id => i = j

\* C27 for the archives whose table of contents and spine repeat nothing
C27_DistinctWithoutRepeats ==
  Returned
    /\ (\A i, j \in 1..Len(tableOfContents) :
          tableOfContents[i].href = tableOfContents[j].href => i = j)
    /\ (\A i, j \in 1..Len(packageData.spine) :
          packageData.spine[i].idref = packageData.spine[j].idref => i = j)
    => \A i, j \in 1..Len(doc.chapters) : doc.chapters[i].id = doc.chapters[j].id => i = j

\* s can be read off t from left to right, skipping elements of t
RECURSIVE IsSubsequence(_, _)
IsSubsequence(s, t) ==
  IF s = <<>> THEN TRUE
  ELSE IF t = <<>> THEN FALSE
  ELSE IF Head(s) = Head(t) THEN IsSubsequence(Tail(s), Tail(t))
  ELSE IsSubsequence(s, Tail(t))

\* the entries of the table of contents that carry an anchor, in traversal order
AnchorEntries == SelectSeq(tableOfContents, LAMBDA e : e.href.hash /\ e.href.frag # "")

\* what a chapter and its entry of the table of contents have in common
EntryKey(x) == <<x.href, x.title, x.level>>

ChapterKeys == [i \in 1..Len(doc.chapters) |-> EntryKey(doc.chapters[i])]

\* position in the traversal of the first anchor entry naming the file of entry k
FirstOfFile(k) ==
  CHOOSE f \in 1..k :
    /\ FilePart(AnchorEntries[f].href) = FilePart(AnchorEntries[k].href)
    /\ \A m \in 1..(f - 1) : FilePart(AnchorEntries[m].href) # FilePart(AnchorEntries[k].href)

\* the anchor entries sorted by <<FirstOfFile(k), k>>: file by file, the
\* files in the order of their first entry
RECURSIVE SortedByFile(_)
SortedByFile(done) ==
  LET rest == (1..Len(AnchorEntries)) \ done
  IN IF rest = {} THEN <<>>
     ELSE LET k == CHOOSE c \in rest :
                     \A o \in rest :
                        \/ FirstOfFile(c) < FirstOfFile(o)
                        \/ FirstOfFile(c) = FirstOfFile(o) /\ c <= o
          IN <<EntryKey(AnchorEntries[k])>> \o SortedByFile(done \cup {k})

\* the table of contents names a file again after it went on to another
Interleaved ==
  \E i, j, k \in 1..Len(AnchorEntries) :
     /\ i < j /\ j < k
     /\ FilePart(AnchorEntries[i].href) = FilePart(AnchorEntries[k].href)
     /\ FilePart(AnchorEntries[i].href) # FilePart(AnchorEntries[j].href)

\* C28: the anchor-driven chapters of a returned document stand in the order
\* of their entries in the traversal of the table of contents, also when the
\* table of contents interleaves the entries of different files.
C28_ChaptersInTocOrder ==
  Returned /\ doc.chapters # <<>> /\ AnchorChapters =>
    IsSubsequence(ChapterKeys, [k \in 1..Len(AnchorEntries) |-> EntryKey(AnchorEntries[k])])

\* What holds of the order: the chapters stand file by file, the files
\* in the order of their first entry in the traversal, and within a file in
\* the order of the traversal; where the table of contents does not
\* interleave files this is the order of the traversal.
C28_ChaptersGroupedByFile ==
  Returned /\ doc.chapters # <<>> /\ AnchorChapters =>
    /\ IsSubsequence(ChapterKeys, SortedByFile({}))
    /\ ~Interleaved =>
         IsSubsequence(ChapterKeys, [k \in 1..Len(AnchorEntries) |-> EntryKey(AnchorEntries[k])])

\* a returned document of three chapters from a table of contents that
\* names ch1.xhtml, ch2.xhtml and ch1.xhtml again: the chapter of the
\* second entry is the last one
C28_InterleavedReturned ==
  /\ Returned
  /\ AnchorChapters
  /\ Interleaved
  /\ Len(AnchorEntries) = 3
  /\ Len(doc.chapters) = 3
  /\ EntryKey(doc.chapters[3]) = EntryKey(AnchorEntries[2])
  /\ EntryKey(doc.chapters[2]) = EntryKey(AnchorEntries[3])

\* the chapters cut from the file of a manifest item, by position in doc.chapters
ChaptersOfFile(id) ==
  SelectIdx(Len(doc.chapters), LAMBDA i : doc.chapters[i].strategy = "anchor"
                                           /\ doc.chapters[i].id[1] = id)

PiecesOf(ch) == {ch.section[i] : i \in 1..Len(ch.section)}

\* the word count of a whole content file
FileWords(item) ==
  LET d == DocAt(FileOf(item))
  IN countWords(extractTextFromHtml(d, AllPieces(d)))

\* C29: the sections cut from one file are disjoint, so the word counts of
\* the chapters of a file add up to at most the word count of the file, also
\* when an anchor of the file cannot be located.
C29_SectionsDisjoint ==
  Returned =>
    \A m \in 1..Len(packageData.manifest) :
      LET item == packageData.manifest[m]
          of == ChaptersOfFile(item.id)
      IN of # <<>> =>
           /\ \A a, b \in 1..Len(of) :
                a # b => PiecesOf(doc.chapters[of[a]]) \cap PiecesOf(doc.chapters[of[b]]) = {}
           /\ SumSeq([a \in 1..Len(of) |-> doc.chapters[of[a]].wordCount])
                <= FileWords(ItemOfChapter(doc.chapters[of[1]]))

\* the anchors of a group are all located, in the order of the document,
\* and none lies inside the element of an earlier one
InDocumentOrder(group, d) ==
  /\ \A j \in 1..Len(group.anchors) : ~Unlocatable(d, group.anchors[j].anchor)
  /\ \A j, k \in 1..Len(group.anchors) :
       j < k =>
         LET pj == AllPieces(d)[FindAnchor(d, group.anchors[j].anchor)]
             pk == AllPieces(d)[FindAnchor(d, group.anchors[k].anchor)]
         IN /\ FindAnchor(d, group.anchors[j].anchor) < FindAnchor(d, group.anchors[k].anchor)
            /\ ~(pj[2] = 0 /\ pk[1] = pj[1])

\* What holds of the sections: they are disjoint, and their word counts add
\* up to at most the file's, for a file whose anchors are all located, stand
\* in the table of contents in the order of the document and are not nested.
C29_DisjointInDocumentOrder ==
  Returned =>
    \A g \in 1..Len(anchorsByFile) :
      LET group == anchorsByFile[g]
          item == packageData.manifest[FirstIndex(packageData.manifest,
                                         LAMBDA it : ~it.href.num /\ it.href = group.file)]
          of == ChaptersOfFile(item.id)
      IN GroupOpens(group) /\ InDocumentOrder(group, DocAt(FileOf(item))) /\ of # <<>> =>
           /\ \A a, b \in 1..Len(of) :
                a # b => PiecesOf(doc.chapters[of[a]]) \cap PiecesOf(doc.chapters[of[b]]) = {}
           /\ SumSeq([a \in 1..Len(of) |-> doc.chapters[of[a]].wordCount]) <= FileWords(item)

\* a returned document with two chapters cut from ch1.xhtml, the second
\* from an anchor that no element of the file bears
C29_UnlocatedSecond ==
  /\ Returned
  /\ Len(doc.chapters) = 2
  /\ AnchorChapters
  /\ doc.chapters[1].href = AnchorHref("ch1.xhtml", "s1")
  /\ doc.chapters[2].href = AnchorHref("ch1.xhtml", "zz")
  /\ doc.chapters[1].wordCount + doc.chapters[2].wordCount > FileWords(ItemOfChapter(doc.chapters[1]))

-----------------------------------------------------------------------------
(* Properties of the request handler *)

PersistenceSteps == {"insertForeign", "insertNative", "insertPair"}

\* C13: when a persistence step failed and the handler has returned its
\* error response, both uploaded objects are gone and no book row of the
\* request remains.
C13_PersistenceFailureRollsBack ==
  hpc = "done" /\ failed \in PersistenceSteps =>
    /\ response.status = 500
    /\ storage \cap {StorageObject(side) : side \in Sides} = {}
    /\ books = {}

Performed(step) == \E i \in 1..Len(trace) : trace[i] = step

\* C14: the steps of a request occur in program order: nothing is uploaded
\* before both files are unpacked, nothing is parsed before both uploads,
\* no book row is inserted before both uploads succeeded and both parses
\* finished, and no pair row before both book rows exist.
C14_StepOrder ==
  /\ IsPrefixOf(trace, Steps)
  /\ storage # {} => processed = Sides
  /\ (\E side \in Sides : parsed[side].state # "pending") =>
       Performed("uploadForeign") /\ Performed("uploadNative")
  /\ Performed("uploadForeign") /\ Performed("uploadNative") /\ failed = "none" =>
       {StorageObject(side) : side \in Sides} \subseteq storage
  /\ books # {} =>
       /\ Performed("uploadForeign") /\ Performed("uploadNative")
       /\ \A side \in Sides : parsed[side].state # "pending"
  /\ pairs # {} => {row.id : row \in books} = Sides

\* a request that went through every step
C14_Witness ==
  /\ hpc = "done"
  /\ response.status = 200
  /\ pairs # {}
  /\ Len(trace) = Len(Steps)

ParsedFlag(side) == IF side = "foreign" THEN response.foreignParsed ELSE response.nativeParsed
ErrorField(side) == IF side = "foreign" THEN response.foreignError ELSE response.nativeError

\* C15: a parse that throws never gives an error response; when the
\* handler answers with success both rows and the pair exist, the row of a
\* side whose parse threw has json_blob and cover_url null, and the response
\* reports the side as not parsed, with the error message.
C15_ParseFailureStillCreates ==
  /\ response.status = 500 => failed \in Range(Steps) \ {"parseForeign", "parseNative"}
  /\ response.status = 200 =>
       /\ {row.id : row \in books} = Sides
       /\ pairs # {}
       /\ \A side \in Sides :
            parsed[side].state = "threw" =>
              /\ \A row \in books :
                   row.side = side => row.json_blob = <<>> /\ row.cover_url = NullSeq
              /\ ~ParsedFlag(side)
              /\ ErrorField(side) = parsed[side].error

\* a success response after the parse of the foreign side threw and the
\* parse of the native side returned a document with a cover
C15_Witness ==
  /\ response.status = 200
  /\ parsed["foreign"].state = "threw"
  /\ parsed["native"].state = "ok"
  /\ \E row \in books : row.side = "native" /\ row.cover_url # NullSeq

\* the request was turned down before anything was to be stored: a required
\* field is missing, or a file is of no supported type or cannot be unpacked
RejectedBeforePersistence ==
  \/ response.status = 400
  \/ response.status = 500 /\ failed \in {"unpackForeign", "unpackNative"}

\* C30: a request rejected before persistence has no side effects: no bucket
\* was created or updated, no object uploaded, no row of books or book_pairs
\* inserted.
C30_RejectionHasNoSideEffects ==
  RejectedBeforePersistence =>
    /\ \A name \in BucketNames : buckets[name] \in {"absent", "present"}
    /\ storage = {}
    /\ books = {}
    /\ pairs = {}
    /\ trace \in {<<>>, <<"validate">>, <<"validate", "unpackForeign">>}

\* the foreign file was unpacked and the native file then refused with
\* status 500
C30_Witness ==
  /\ response.status = 500
  /\ failed = "unpackNative"
  /\ "foreign" \in processed
  /\ request.nativeFile \in {"txt", "emptyZip"}

\* a request without ownerId answered with status 400
C30_MissingField ==
  /\ response.status = 400
  /\ ~request.ownerId
  /\ request.foreignFile = "epub" /\ request.nativeFile = "epub"
  /\ hpc = "done"

\* What an upload that fails leaves behind: the bucket made for it
C30_BucketOutlivesFailedUpload ==
  /\ response.status = 500
  /\ failed = "uploadForeign"
  /\ storage = {}
  /\ \E name \in BucketNames : buckets[name] = "created"

-----------------------------------------------------------------------------
(* Properties of the Content Normalizer *)

\* the words of a section outside script, style and head elements and outside
\* the boilerplate
VisibleText(html) ==
  LET kept == RemoveElement(RemoveElement(RemoveElement(stripProjectGutenbergBoilerplate(html),
                                                        "script"), "style"), "head")
  IN {kept[i] : i \in {j \in 1..Len(kept) :
                         /\ kept[j].kind = "text"
                         /\ \A e \in SplitEntities : kept[j] # EntityTail(e)}}

\* C17: the display markup of a section holds no tag other than bare <p>,
\* <strong>, <em> and <u> opening and closing tags, no attribute survives on
\* them, and the text inside the removed tags is still there.
C17_OnlyBareFormattingTags ==
  npc = "done" =>
    /\ \A i \in 1..Len(displayHtml) :
         IsTag(displayHtml[i]) =>
           displayHtml[i].name \in FormattingTags /\ displayHtml[i].attr = ""
    /\ \A t \in VisibleText(rawHtml) : \E i \in 1..Len(displayHtml) : displayHtml[i] = t

Occurrences(s, t) == Cardinality({i \in 1..Len(s) : s[i] = t})

\* C18: the plain text of a section holds no entity reference, and every
\* reference of the section was decoded exactly once: the text of a reference
\* written with &amp; is not decoded a second time.  This holds whether the
\* html-to-text library was loaded or the regex fallback ran.
C18_EntitiesDecodedOnce ==
  npc \in {"formatted", "done"} =>
    /\ \A i \in 1..Len(plainText) : plainText[i].kind # "entity"
    /\ \A e \in SplitEntities :
         Occurrences(plainText, EntityTail(e)) = Occurrences(rawHtml, EntityTail(e))

\* C18 on the library path alone
C18_LibraryPath == HtmlToTextLoaded => C18_EntitiesDecodedOnce

NormalizerTypeOK ==
  /\ npc \in {"ready", "formatted", "done"}
  /\ \A i \in 1..Len(plainText) : plainText[i].kind = "text" \/ plainText[i].kind = "entity"

====
